---- MODULE Spec2Model ----
(***************************************************************************)
(* Protocolo AEE: hybrid dual-signature certification.                     *)
(*                                                                         *)
(* Part 1 models the NTP time quorum of src/aee/core.py (RobustNTPQuorum). *)
(* Part 2 models certificate building and verification                     *)
(* (src/aee/pqc_hybrid.py, src/aee/notario_pqc.py, src/aee/api/routes.py,  *)
(* IntegrityVerifier of src/aee/core.py).                                  *)
(*                                                                         *)
(* Time values are integer milliseconds.  The source holds seconds as      *)
(* floats and multiplies differences by 1000 before comparing them with    *)
(* max_deviation_ms; here the readings are already in milliseconds.  Every *)
(* reading is an even number of milliseconds, so the median of an even     *)
(* number of readings (the mean of the two middle ones) is an integer and  *)
(* is computed exactly.  desviacion_estandar_ms, which the source rounds   *)
(* to two decimals, is an integer number of hundredths of a millisecond.   *)
(***************************************************************************)
EXTENDS Integers, Sequences, FiniteSets, TLC

(***************************************************************************)
(* Bounds of the model.                                                    *)
(***************************************************************************)
\* largest number of configured servers in the quorum specification
MaxServers == 4
\* readings of the quorum specification are 0, Grid, 2*Grid, ..., MaxTick*Grid
MaxTick == 4
\* half of the reading grid in milliseconds (the grid itself is even)
HalfGridMs == 125
\* max_deviation_ms is drawn from Grid*1 .. Grid*MaxDevTicks and the default
MaxDevTicks == 1

(***************************************************************************)
(* Program constants.                                                      *)
(***************************************************************************)
\* RobustNTPQuorum.__init__: max_deviation_ms = 500.0
DefaultMaxDeviationMs == 500
\* RobustNTPQuorum.__init__: min_successful_servers = 3
DefaultMinSuccessful == 3
\* RobustNTPQuorum.DEFAULT_SERVERS has five entries
NumDefaultServers == 5
\* obtener_timestamp_consenso: outliers are filtered when len(timestamps) >= 3
MinReadingsForFilter == 3

Grid == 2 * HalfGridMs
Timestamps == {Grid * k : k \in 0..MaxTick}
MaxDeviations == {DefaultMaxDeviationMs} \cup {Grid * k : k \in 1..MaxDevTicks}
\* what one NTP request can do: <<FALSE, 0>> is an error or a timeout,
\* <<TRUE, t>> delivers response.tx_time = t
FALLO == <<FALSE, 0>>
Reading(t) == <<TRUE, t>>
Outcomes == {FALLO} \cup {Reading(t) : t \in Timestamps}

(***************************************************************************)
(* Sequence helpers (statistics.median, statistics.stdev, list filters).   *)
(***************************************************************************)
RECURSIVE Insert(_, _)
Insert(x, s) ==
    IF s = <<>> THEN <<x>>
    ELSE IF x <= Head(s) THEN <<x>> \o s
    ELSE <<Head(s)>> \o Insert(x, Tail(s))

RECURSIVE Sorted(_)
Sorted(s) == IF s = <<>> THEN <<>> ELSE Insert(Head(s), Sorted(Tail(s)))

RECURSIVE SumSeq(_)
SumSeq(s) == IF s = <<>> THEN 0 ELSE Head(s) + SumSeq(Tail(s))

RECURSIVE SumSquares(_)
SumSquares(s) == IF s = <<>> THEN 0 ELSE Head(s) * Head(s) + SumSquares(Tail(s))

Abs(x) == IF x < 0 THEN -x ELSE x

\* the arithmetic mean in place of the median (statistics.mean)
MedianAsMean(s) == SumSeq(s) \div Len(s)

\* statistics.median: middle element, or the mean of the two middle elements
Median(s) ==
    LET sorted == Sorted(s)
        n == Len(s)
    IN IF n % 2 = 1 THEN sorted[(n + 1) \div 2]
       ELSE (sorted[n \div 2] + sorted[n \div 2 + 1]) \div 2

\* statistics.stdev(s) in milliseconds, as the exact rational of its square:
\* <<num, den>> stands for sqrt(num / den), the sample standard deviation
\* (n - 1 in the denominator).
StdevSq(s) ==
    LET n == Len(s)
    IN <<n * SumSquares(s) - SumSeq(s) * SumSeq(s), n * (n - 1)>>

\* one step of the digit-by-digit square root: state <<p, c>> is the root
\* found so far and the remainder; pair is the next two decimal digits
SqrtStep(state, pair) ==
    LET p == state[1]
        c == state[2] * 100 + pair
        x == CHOOSE d \in 0..9 :
                /\ (20 * p + d) * d <= c
                /\ (20 * p + d + 1) * (d + 1) > c
    IN <<10 * p + x, c - (20 * p + x) * x>>

\* root and remainder of the integer m
RECURSIVE SqrtInt(_)
SqrtInt(m) == IF m = 0 THEN <<0, 0>> ELSE SqrtStep(SqrtInt(m \div 100), m % 100)

\* k more decimal digits of the root; r / den is the part of the radicand
\* below the digits already used
RECURSIVE SqrtDecimals(_, _, _, _)
SqrtDecimals(state, r, den, k) ==
    IF k = 0 THEN state[1]
    ELSE SqrtDecimals(SqrtStep(state, (r * 100) \div den), (r * 100) % den, den, k - 1)

\* round(std_dev_ms, 2) of sqrt(sq[1] / sq[2]), in hundredths of a
\* millisecond: the root to 3 decimals, then rounded to the nearest
\* hundredth.  A tie would need 64 to divide n * (n - 1); it does not occur
\* with fewer than 64 integer readings.
Round2(sq) ==
    (SqrtDecimals(SqrtInt(sq[1] \div sq[2]), sq[1] % sq[2], sq[2], 3) + 5) \div 10

(***************************************************************************)
(* RobustNTPQuorum                                                         *)
(***************************************************************************)
\* query_server: one request; an exception gives a failed response with
\* timestamp 0.0.  offset and delay are copied into the detail unchanged and
\* take no part in the consensus; they are left out.
QueryServer(server, outcome) ==
    IF outcome[1]
    THEN [server |-> server, timestamp |-> outcome[2], success |-> TRUE]
    ELSE [server |-> server, timestamp |-> 0, success |-> FALSE]

\* every response taken as successful
AllResponses(responses) == responses

\* successful = [r for r in responses if r.success]
Successful(responses) == SelectSeq(responses, LAMBDA r : r.success)

TimestampsOf(successful) == [i \in 1..Len(successful) |-> successful[i].timestamp]

\* a quorum test that only fails when no server answered at all
QuorumFailsOnlyIfEmpty(successful, min_successful) ==
    Len(successful) < min_successful /\ Len(successful) = 0

\* if len(successful) < self.min_successful: raise RuntimeError
QuorumFails(successful, min_successful) == Len(successful) < min_successful

\* a filter that measures the distance without the absolute value
WithinDeviationSigned(ts, median_initial, max_deviation_ms) ==
    ts - median_initial <= max_deviation_ms

\* abs(ts - median_initial) * 1000 <= self.max_deviation_ms
WithinDeviation(ts, median_initial, max_deviation_ms) ==
    Abs(ts - median_initial) <= max_deviation_ms

\* a filter whose result is used however few readings survive it
FinalTimestampsSinRelajacion(timestamps, min_successful, max_deviation_ms) ==
    IF Len(timestamps) >= MinReadingsForFilter
    THEN SelectSeq(timestamps,
            LAMBDA ts : WithinDeviation(ts, Median(timestamps), max_deviation_ms))
    ELSE timestamps

\* the retained readings: the filtered ones, or all of them when fewer than
\* min_successful survive the filter or fewer than 3 readings exist
FinalTimestamps(timestamps, min_successful, max_deviation_ms) ==
    LET median_initial == Median(timestamps)
        filtered == SelectSeq(timestamps,
                      LAMBDA ts : WithinDeviation(ts, median_initial, max_deviation_ms))
    IN IF Len(timestamps) >= MinReadingsForFilter
       THEN IF Len(filtered) < min_successful THEN timestamps ELSE filtered
       ELSE timestamps

\* the record obtener_timestamp_consenso returns
ConsensusRecord(n_servers, successful, min_successful, max_deviation_ms) ==
    LET timestamps == TimestampsOf(successful)
        final_timestamps == FinalTimestamps(timestamps, min_successful, max_deviation_ms)
        median_final == Median(final_timestamps)
    IN [timestamp_unix |-> median_final,
        timestamp_iso |-> <<"iso", median_final>>,
        servidores_consultados |-> n_servers,
        servidores_exitosos |-> Len(successful),
        servidores_usados_consenso |-> Len(final_timestamps),
        desviacion_estandar_ms |->
            IF Len(timestamps) >= MinReadingsForFilter
            THEN Round2(StdevSq(timestamps)) ELSE 0,
        detalle_servidores |->
            [i \in 1..Len(successful) |->
                [servidor |-> successful[i].server,
                 timestamp |-> successful[i].timestamp]]]

\* obtener_timestamp_consenso over the responses of all servers: either the
\* RuntimeError of a failed quorum or the consensus record
ObtenerTimestampConsenso(responses, min_successful, max_deviation_ms) ==
    LET successful == Successful(responses)
    IN IF QuorumFails(successful, min_successful)
       THEN [kind |-> "error", error |-> "RuntimeError"]
       ELSE [kind |-> "ok",
             record |-> ConsensusRecord(Len(responses), successful,
                                        min_successful, max_deviation_ms)]

(***************************************************************************)
(* State.  The q_ variables are one RobustNTPQuorum object and one call of *)
(* obtener_timestamp_consenso on it (SpecQuorum).  The c_ variables are    *)
(* one certification followed by one verification (SpecCert).  Each        *)
(* specification leaves the other one's variables at rest.                 *)
(***************************************************************************)
VARIABLES
    q_servers,      \* self.servers, as the number of configured servers
    q_min,          \* self.min_successful
    q_maxdev,       \* self.max_deviation_ms
    q_responses,    \* responses gathered so far, in server order
    q_requests,     \* the requests sent so far: [server, completadas], where
                    \* completadas are the servers whose query had returned
                    \* when this request was sent
    q_pc,           \* "consultando" | "terminado"
    q_result,       \* "pendiente", or what the call returned or raised
    c_core,         \* AEE_CORE_AVAILABLE: pqc_hybrid could import aee.core
    c_kyber,        \* KYBER_AVAILABLE: the kyber-py package is installed
    c_now,          \* what the local clock reads
    c_archivo,      \* the evidence file: [existe, nombre, contenido]
    c_pc,           \* "inicio" | "certificado" | "verificado"
    c_outcome,      \* how the certify operation ended: [op, kind, error, http]
    c_consulta,     \* what the time servers gave the certify operation
    c_emitido,      \* the certificate the operation returned, as returned
    c_cert,         \* the certificate as it reaches the verifier
    c_alterado,     \* the certificate field changed on the way, "" if none
    c_archivo_cert, \* the content of the file that was hashed
    c_llamada,      \* the certify operation in flight: which one, and the
                    \* file as the operation found it at its first step
    c_disco,        \* the file at the notary's certificado_output_path
    c_db,           \* the certificates and audit_logs tables
    c_report        \* the report of the verification

qvars == <<q_servers, q_min, q_maxdev, q_responses, q_requests, q_pc, q_result>>
cvars == <<c_core, c_kyber, c_now, c_archivo, c_pc, c_outcome, c_consulta,
           c_emitido, c_cert, c_alterado, c_archivo_cert, c_llamada, c_disco, c_db,
           c_report>>

\* The j_ variables are two records given to CanonicalJSONSerializer
\* (SpecJson).
VARIABLES
    j_r1,           \* the first record
    j_r2,           \* the second record
    j_rel,          \* how the second was obtained: "permutacion" | "otro"
    j_pc,           \* "inicio" | "serializado" | "comparado"
    j_s1,           \* serialize(r1): the text, or the exception
    j_h1,           \* hash_canonical(r1)
    j_s2,           \* serialize(r2)
    j_h2,           \* hash_canonical(r2)
    j_verify        \* verify_canonical(r2, hash_canonical(r1))

jvars == <<j_r1, j_r2, j_rel, j_pc, j_s1, j_h1, j_s2, j_h2, j_verify>>

SinTexto == [kind |-> "ninguno"]

\* no record is under observation
JReposo ==
    /\ j_r1 = <<"dict", <<>>>>
    /\ j_r2 = <<"dict", <<>>>>
    /\ j_rel = ""
    /\ j_pc = "reposo"
    /\ j_s1 = SinTexto
    /\ j_h1 = SinTexto
    /\ j_s2 = SinTexto
    /\ j_h2 = SinTexto
    /\ j_verify = SinTexto

\* The t_ variables are one ForensicErrorHandler transaction over a file
\* system (SpecTx).
VARIABLES
    t_fs,           \* the files: path -> [existe, contenido]
    t_inicio,       \* the files as they were at __enter__
    t_backup_data,  \* self.backup_data: the paths that have a backup
    t_backups,      \* the .backup files on disk: path -> [existe, contenido]
    t_temp_files,   \* self.temp_files
    t_respaldado,   \* path -> the file as it was at the last backup_file call
    t_ops,          \* steps the wrapped operation has made
    t_pc,           \* "dentro" | "salio"
    t_outcome       \* "" | "ok" | "ForensicTransactionError"

tvars == <<t_fs, t_inicio, t_backup_data, t_backups, t_temp_files, t_respaldado,
           t_ops, t_pc, t_outcome>>

\* no transaction is under observation
TReposo ==
    /\ t_fs = <<>>
    /\ t_inicio = <<>>
    /\ t_backup_data = {}
    /\ t_backups = <<>>
    /\ t_temp_files = {}
    /\ t_respaldado = <<>>
    /\ t_ops = 0
    /\ t_pc = "reposo"
    /\ t_outcome = ""

\* The f_ variables are one call of firmar_dual followed by one call of
\* verificar_dual (SpecFirma).
VARIABLES
    f_kyber,        \* KYBER_AVAILABLE
    f_mensaje,      \* mensaje_canonical given to firmar_dual
    f_keypair,      \* keypair given to firmar_dual
    f_pc,           \* "inicio" | "firmado" | "verificado"
    f_firma,        \* what firmar_dual returned or raised
    f_pqc_falla,    \* _encapsular_hibrido raised during this call
    f_presentada,   \* the DualSignature as it reaches verificar_dual
    f_sello,        \* what happened to its seal on the way, "" if nothing
    f_verif,        \* the message and public key given to verificar_dual
    f_resultado,    \* what verificar_dual returned or raised
    f_auditoria     \* the call of desencapsular_auditoria and what it returned

fvars == <<f_kyber, f_mensaje, f_keypair, f_pc, f_firma, f_pqc_falla,
           f_presentada, f_sello, f_verif, f_resultado, f_auditoria>>
vars == <<qvars, cvars, fvars, jvars, tvars>>

SinFirma == [kind |-> "ninguna"]

\* no signature is under observation
FReposo ==
    /\ f_kyber = TRUE
    /\ f_mensaje = <<>>
    /\ f_keypair = [key_id |-> "ninguna"]
    /\ f_pc = "reposo"
    /\ f_firma = SinFirma
    /\ f_pqc_falla = FALSE
    /\ f_presentada = SinFirma
    /\ f_sello = ""
    /\ f_verif = [kind |-> "ninguna"]
    /\ f_resultado = [kind |-> "ninguno"]
    /\ f_auditoria = [kind |-> "ninguna"]

SinCertificado == [tipo |-> "ninguno"]
SinLlamada == [op |-> "ninguna"]
SinReporte == [op |-> "ninguna"]

\* no certification is going on
CReposo ==
    /\ c_core = TRUE
    /\ c_kyber = TRUE
    /\ c_now = 0
    /\ c_archivo = [existe |-> FALSE, nombre |-> "", contenido |-> <<>>]
    /\ c_pc = "reposo"
    /\ c_outcome = [op |-> "", kind |-> "pendiente", error |-> "", http |-> 0]
    /\ c_consulta = [kind |-> "no_consultado"]
    /\ c_emitido = SinCertificado
    /\ c_cert = SinCertificado
    /\ c_alterado = ""
    /\ c_archivo_cert = <<>>
    /\ c_llamada = SinLlamada
    /\ c_disco = [estado |-> "ausente"]
    /\ c_db = [certificates |-> {}, audit_logs |-> {}]
    /\ c_report = SinReporte

\* no quorum object is under observation
QReposo ==
    /\ q_servers = 1
    /\ q_min = 1
    /\ q_maxdev = DefaultMaxDeviationMs
    /\ q_responses = <<>>
    /\ q_requests = <<>>
    /\ q_pc = "reposo"
    /\ q_result = [kind |-> "pendiente"]

QInit ==
    /\ q_servers \in 1..MaxServers
    /\ q_min \in 1..MaxServers
    /\ q_min <= q_servers
    /\ q_maxdev \in MaxDeviations
    /\ q_responses = <<>>
    /\ q_requests = <<>>
    /\ q_pc = "consultando"
    /\ q_result = [kind |-> "pendiente"]
    /\ CReposo
    /\ FReposo
    /\ JReposo
    /\ TReposo

\* responses = [self.query_server(server) for server in self.servers]:
\* the next server of the list is queried, once the calls of query_server
\* for the servers before it have returned
QQueryServer ==
    /\ q_pc = "consultando"
    /\ Len(q_responses) < q_servers
    /\ q_requests' = Append(q_requests,
                            [server |-> Len(q_responses) + 1,
                             completadas |-> {q_responses[j].server :
                                                 j \in 1..Len(q_responses)}])
    /\ \E outcome \in Outcomes :
          q_responses' = Append(q_responses,
                                QueryServer(Len(q_responses) + 1, outcome))
    /\ UNCHANGED <<q_servers, q_min, q_maxdev, q_pc, q_result>>
    /\ UNCHANGED <<cvars, fvars, jvars, tvars>>

\* the rest of obtener_timestamp_consenso, once every server has answered
QConsenso ==
    /\ q_pc = "consultando"
    /\ Len(q_responses) = q_servers
    /\ q_result' = ObtenerTimestampConsenso(q_responses, q_min, q_maxdev)
    /\ q_pc' = "terminado"
    /\ UNCHANGED <<q_servers, q_min, q_maxdev, q_responses, q_requests>>
    /\ UNCHANGED <<cvars, fvars, jvars, tvars>>

QNext == QQueryServer \/ QConsenso

SpecQuorum == QInit /\ [][QNext]_vars

(***************************************************************************)
(* Properties of the time quorum                                           *)
(***************************************************************************)
QDone == q_pc = "terminado"
QReadings == TimestampsOf(Successful(q_responses))
QNumSuccessful == Cardinality({i \in 1..Len(q_responses) : q_responses[i].success})
\* the successful readings at most max_deviation_ms away from their median
QNear == SelectSeq(QReadings,
                   LAMBDA ts : /\ ts - Median(QReadings) <= q_maxdev
                               /\ Median(QReadings) - ts <= q_maxdev)
\* the number of successful readings inside [lo, hi]
QInside(lo, hi) ==
    Cardinality({i \in 1..Len(QReadings) : lo <= QReadings[i] /\ QReadings[i] <= hi})

\* C2: whenever fewer than min_successful sources answered successfully, the
\* call ends with the quorum error and hands no consensus record (no
\* timestamp at all) to the caller.
C2_QuorumErrorNoRecord ==
    (QDone /\ QNumSuccessful < q_min)
        => /\ q_result.kind = "error"
           /\ q_result.error = "RuntimeError"
           /\ DOMAIN q_result = {"kind", "error"}

\* C2 witness: some but too few sources answered, and the call raised
C2_Witness ==
    /\ QDone
    /\ QNumSuccessful > 0
    /\ QNumSuccessful < q_min
    /\ q_result.kind = "error"

\* C9: with at least 3 successful readings of which at least min_successful
\* lie within max_deviation_ms of the initial median, the consensus timestamp
\* is the median of exactly those near readings; and when all successful
\* readings lie within max_deviation_ms of each other nothing is discarded:
\* the result is their median and servidores_usados_consenso equals
\* servidores_exitosos.
C9_MedianOfRetained ==
    QDone =>
      /\ (Len(QReadings) >= 3 /\ Len(QNear) >= q_min)
            => /\ q_result.kind = "ok"
               /\ q_result.record.timestamp_unix = Median(QNear)
               /\ q_result.record.servidores_usados_consenso = Len(QNear)
      /\ ( /\ Len(QReadings) >= q_min
           /\ \A i, j \in 1..Len(QReadings) :
                 QReadings[i] - QReadings[j] <= q_maxdev )
            => /\ q_result.kind = "ok"
               /\ q_result.record.timestamp_unix = Median(QReadings)
               /\ q_result.record.servidores_usados_consenso
                     = q_result.record.servidores_exitosos
               /\ q_result.record.servidores_exitosos = Len(QReadings)

\* C9 witness: a consensus in which an outlier below the median and the
\* readings near it were told apart
C9_Witness ==
    /\ QDone
    /\ Len(QReadings) >= 3
    /\ Len(QNear) >= q_min
    /\ Len(QNear) < Len(QReadings)
    /\ \E i \in 1..Len(QReadings) : Median(QReadings) - QReadings[i] > q_maxdev
    /\ q_result.kind = "ok"
    /\ q_result.record.timestamp_unix = Median(QNear)

\* C10 as stated: whenever a strict majority of the successful readings lie
\* in an interval [lo, hi], the consensus timestamp lies in [lo, hi].
C10_MajorityIntervalAnyWidth ==
    (QDone /\ q_result.kind = "ok") =>
        \A lo, hi \in Timestamps :
            2 * QInside(lo, hi) > Len(QReadings)
                => /\ lo <= q_result.record.timestamp_unix
                   /\ q_result.record.timestamp_unix <= hi

\* C10 amended: whenever a strict majority of the successful readings lie in
\* an interval [lo, hi] no wider than max_deviation_ms, the consensus
\* timestamp lies in [lo, hi], whatever the other readings are.
C10_MajorityIntervalWithinDeviation ==
    (QDone /\ q_result.kind = "ok") =>
        \A lo, hi \in Timestamps :
            (hi - lo <= q_maxdev /\ 2 * QInside(lo, hi) > Len(QReadings))
                => /\ lo <= q_result.record.timestamp_unix
                   /\ q_result.record.timestamp_unix <= hi

\* C10 witness: a strict majority agrees exactly, a minority reading is far
\* away, and the consensus is the majority's value
C10_Witness ==
    /\ QDone
    /\ q_result.kind = "ok"
    /\ \E t \in Timestamps :
          /\ 2 * QInside(t, t) > Len(QReadings)
          /\ \E i \in 1..Len(QReadings) : QReadings[i] - t > q_maxdev
          /\ q_result.record.timestamp_unix = t


\* C11: every record returned by obtener_timestamp_consenso has
\* min_successful <= servidores_usados_consenso <= servidores_exitosos <=
\* servidores_consultados, and when fewer than min_successful readings are
\* within max_deviation_ms of the median all successful readings are kept.
C11_FiltroNoBajaDelQuorum ==
    (QDone /\ q_result.kind = "ok") =>
        /\ q_min <= q_result.record.servidores_usados_consenso
        /\ q_result.record.servidores_usados_consenso
              <= q_result.record.servidores_exitosos
        /\ q_result.record.servidores_exitosos
              <= q_result.record.servidores_consultados
        /\ (Len(QReadings) >= MinReadingsForFilter /\ Len(QNear) < q_min)
              => q_result.record.servidores_usados_consenso = Len(QReadings)

\* C11 witness: the filter would have left fewer than min_successful
\* readings, and the record counts all successful readings as used
C11_Witness ==
    /\ QDone
    /\ q_result.kind = "ok"
    /\ Len(QReadings) >= MinReadingsForFilter
    /\ Len(QNear) < q_min
    /\ q_result.record.servidores_usados_consenso = Len(QReadings)


\* the readings the record counts in servidores_usados_consenso
QRetained == FinalTimestamps(QReadings, q_min, q_maxdev)

\* C12: desviacion_estandar_ms of a returned record is the standard
\* deviation of the retained readings, the ones counted in
\* servidores_usados_consenso (0 when fewer than two are retained).
C12_DesviacionDelConjuntoRetenido ==
    (QDone /\ q_result.kind = "ok") =>
        IF Len(QRetained) >= 2
        THEN q_result.record.desviacion_estandar_ms = Round2(StdevSq(QRetained))
        ELSE q_result.record.desviacion_estandar_ms = 0


\* the servers whose query delivered a reading
QSuccessServers == {i \in 1..Len(q_responses) : q_responses[i].success}
\* the number of requests sent to server s
QRequestsTo(s) == Cardinality({i \in 1..Len(q_requests) : q_requests[i].server = s})

\* C13: within one attempt no server is sent more than one request and, at
\* the end, every configured server was sent exactly one; a server whose
\* query failed is not counted in servidores_exitosos, is absent from
\* detalle_servidores, and the consensus lies between two delivered
\* readings.
C13_CadaFuenteUnaVez ==
    /\ \A s \in 1..q_servers : QRequestsTo(s) <= 1
    /\ QDone => \A s \in 1..q_servers : QRequestsTo(s) = 1
    /\ (QDone /\ q_result.kind = "ok") =>
          /\ q_result.record.servidores_exitosos = Cardinality(QSuccessServers)
          /\ Len(q_result.record.detalle_servidores) = Cardinality(QSuccessServers)
          /\ {q_result.record.detalle_servidores[i].servidor :
                 i \in 1..Len(q_result.record.detalle_servidores)} = QSuccessServers
          /\ \E i, j \in QSuccessServers :
                /\ q_responses[i].timestamp <= q_result.record.timestamp_unix
                /\ q_result.record.timestamp_unix <= q_responses[j].timestamp

\* C13 witness: a server failed, a later server answered, each was asked
\* once, and the record was built without the failed one
C13_Witness ==
    /\ QDone
    /\ q_result.kind = "ok"
    /\ \E i, j \in 1..Len(q_responses) :
          /\ i < j
          /\ ~q_responses[i].success
          /\ q_responses[j].success
          /\ q_responses[j].timestamp > 0
          /\ QRequestsTo(i) = 1
    /\ q_result.record.timestamp_unix > 0

\* C14: the queries of one attempt are independent tasks: no request is
\* sent only after a failed (errored or timed-out) query of another server
\* has returned.
C14_ConsultasIndependientes ==
    \A i \in 1..Len(q_requests) :
        \A s \in q_requests[i].completadas : q_responses[s].success


(***************************************************************************)
(* PART 2: certificates.                                                   *)
(*                                                                         *)
(* Byte strings, keys, hashes and signatures are symbolic values.  SHA-256 *)
(* is collision free and Ed25519 is unforgeable: a signature verifies      *)
(* under a public key exactly when it was made with the matching private   *)
(* key over the identical message.                                         *)
(***************************************************************************)
\* number of Ed25519 / Kyber key pairs
MaxKeys == 2
\* file contents are the byte strings over 0..MaxByte of length at most 1
MaxByte == 1
\* half of the skew, in milliseconds, of a time source that is far off
HalfFarSkewMs == 2500
\* IntegrityVerifier.verificar_timestamp_quorum: servidores_exitosos < 3
MinQuorumVerificador == 3
\* IntegrityVerifier.verificar_timestamp_quorum: desviacion_estandar_ms > 1000
MaxDesviacionVerificador == 1000

KeyIds == 1..MaxKeys
NONE == <<"None">>          \* Python None
EMPTY == <<>>               \* b'' and ''
Contents == {EMPTY} \cup {<<b>> : b \in 0..MaxByte}

\* hashlib.sha256(...).hexdigest() over the whole content of the file
Sha256(contenido) == <<"sha256", contenido>>

\* bytes.hex() and bytes.fromhex(); a value that is no hex text makes
\* bytes.fromhex raise ValueError
Hex(bytes) == <<"hex", bytes>>
IsHex(text) == Len(text) = 2 /\ text[1] = "hex"
FromHex(text) == text[2]

EdPrivate(k) == <<"ed25519_private", k>>
EdPublic(k) == <<"ed25519_public", k>>
KyPrivate(k) == <<"kyber_private", k>>
KyPublic(k) == <<"kyber_public", k>>
\* private bytes Ed25519PrivateKey.from_private_bytes rejects
EdPrivateCorrupt == <<"ed25519_private", 0>>
IsEdPrivate(bytes) == Len(bytes) = 2 /\ bytes[1] = "ed25519_private" /\ bytes[2] \in KeyIds

\* a signer that signs the empty byte string instead of the message
Ed25519SignSinMensaje(private, mensaje) == <<"ed25519_sig", private[2], EMPTY>>
\* ed_private_key.sign(mensaje_bytes)
Ed25519Sign(private, mensaje) == <<"ed25519_sig", private[2], mensaje>>
\* a verifier that accepts the signature of any key over the message
Ed25519VerifySinClave(public, firma, mensaje) == Len(firma) = 3 /\ firma[3] = mensaje
\* ed_public_key.verify(signature, mensaje_bytes): TRUE, or InvalidSignature
Ed25519Verify(public, firma, mensaje) == firma = <<"ed25519_sig", public[2], mensaje>>

\* datetime.isoformat() of an instant
Iso(t) == <<"iso", t>>

\* HybridCryptoEngine.generar_par_claves_hibrido
GenerarParClavesHibrido(k, kyber_available, now) ==
    LET kyber_public == IF kyber_available THEN KyPublic(k) ELSE EMPTY
    IN [ed25519_private |-> EdPrivate(k),
        ed25519_public |-> EdPublic(k),
        kyber_private |-> IF kyber_available THEN KyPrivate(k) ELSE EMPTY,
        kyber_public |-> kyber_public,
        created_at |-> Iso(now),
        key_id |-> <<"key_id", EdPublic(k), kyber_public>>]

\* HybridKeyPair.to_dict: the public halves only
KeyPairToDict(keypair) ==
    [ed25519_public |-> Hex(keypair.ed25519_public),
     kyber_public |-> IF keypair.kyber_public # EMPTY
                      THEN Hex(keypair.kyber_public) ELSE NONE,
     created_at |-> keypair.created_at,
     key_id |-> keypair.key_id]

(***************************************************************************)
(* CanonicalJSONSerializer.serialize: json.dumps(sort_keys=True) writes    *)
(* the members of every object in the order of their keys.  The canonical  *)
(* text is the sequence of <<key, text of the value>> members in that      *)
(* order.                                                                  *)
(***************************************************************************)
SerializeArchivo(a) ==
    <<"{", <<"nombre", a.nombre>>, <<"tamano_bytes", a.tamano_bytes>>, "}">>

SerializeClaves(c) ==
    <<"{", <<"created_at", c.created_at>>, <<"ed25519_public", c.ed25519_public>>,
           <<"key_id", c.key_id>>, <<"kyber_public", c.kyber_public>>, "}">>

SerializeTimestamp(t) ==
    IF "fuente" \in DOMAIN t
    THEN <<"{", <<"fuente", t.fuente>>, <<"timestamp_iso", t.timestamp_iso>>,
                <<"timestamp_unix", t.timestamp_unix>>, "}">>
    ELSE <<"{", <<"desviacion_estandar_ms", t.desviacion_estandar_ms>>,
                <<"detalle_servidores", t.detalle_servidores>>,
                <<"servidores_consultados", t.servidores_consultados>>,
                <<"servidores_exitosos", t.servidores_exitosos>>,
                <<"servidores_usados_consenso", t.servidores_usados_consenso>>,
                <<"timestamp_iso", t.timestamp_iso>>,
                <<"timestamp_unix", t.timestamp_unix>>, "}">>

\* a serializer that leaves the metadata member out of the text
SerializeBaseSinMetadata(base) ==
    <<"{", <<"archivo", SerializeArchivo(base.archivo)>>,
           <<"claves_publicas", SerializeClaves(base.claves_publicas)>>,
           <<"hash_sha256", base.hash_sha256>>,
           <<"timestamp_ntp", SerializeTimestamp(base.timestamp_ntp)>>, "}">>

\* serialize(certificado_base)
SerializeBase(base) ==
    <<"{", <<"archivo", SerializeArchivo(base.archivo)>>,
           <<"claves_publicas", SerializeClaves(base.claves_publicas)>>,
           <<"hash_sha256", base.hash_sha256>>,
           <<"metadata", base.metadata>>,
           <<"timestamp_ntp", SerializeTimestamp(base.timestamp_ntp)>>, "}">>

(***************************************************************************)
(* HybridCryptoEngine.firmar_dual / verificar_dual                         *)
(***************************************************************************)
\* _encapsular_hibrido: ciphertext of a fresh shared secret and the HMAC tag
\* of the message under the key derived from that secret
EncapsularHibrido(mensaje, keypair) ==
    [pqc_seal |-> <<"kyber_ct", keypair.kyber_public>>,
     pqc_auth_tag |-> <<"hmac", keypair.kyber_public, mensaje>>]

\* a signer that keeps the ciphertext and drops the authentication tag
FirmarDualSinTag(mensaje, keypair, kyber_available, pqc_falla, now) ==
    IF mensaje = EMPTY \/ keypair.ed25519_private = EMPTY
    THEN [kind |-> "error", error |-> "ValueError"]
    ELSE IF ~IsEdPrivate(keypair.ed25519_private)
    THEN [kind |-> "error", error |-> "RuntimeError"]
    ELSE LET sellar == kyber_available /\ keypair.kyber_public # EMPTY /\ ~pqc_falla
             sello == EncapsularHibrido(mensaje, keypair)
         IN [kind |-> "ok",
             firma |-> [signature_classic |-> Ed25519Sign(keypair.ed25519_private, mensaje),
                        pqc_seal |-> IF sellar THEN sello.pqc_seal ELSE NONE,
                        pqc_auth_tag |-> NONE,
                        timestamp |-> Iso(now),
                        algorithm_classic |-> "Ed25519",
                        algorithm_pqc |-> IF kyber_available THEN "Kyber-768" ELSE "None"]]

\* a signer that lets the failure of the post-quantum sealing abort the call
FirmarDualAbortaSinSello(mensaje, keypair, kyber_available, pqc_falla, now) ==
    IF mensaje = EMPTY \/ keypair.ed25519_private = EMPTY
    THEN [kind |-> "error", error |-> "ValueError"]
    ELSE IF ~IsEdPrivate(keypair.ed25519_private)
    THEN [kind |-> "error", error |-> "RuntimeError"]
    ELSE IF kyber_available /\ keypair.kyber_public # EMPTY /\ pqc_falla
    THEN [kind |-> "error", error |-> "RuntimeError"]
    ELSE LET sellar == kyber_available /\ keypair.kyber_public # EMPTY
             sello == EncapsularHibrido(mensaje, keypair)
         IN [kind |-> "ok",
             firma |-> [signature_classic |-> Ed25519Sign(keypair.ed25519_private, mensaje),
                        pqc_seal |-> IF sellar THEN sello.pqc_seal ELSE NONE,
                        pqc_auth_tag |-> IF sellar THEN sello.pqc_auth_tag ELSE NONE,
                        timestamp |-> Iso(now),
                        algorithm_classic |-> "Ed25519",
                        algorithm_pqc |-> IF kyber_available THEN "Kyber-768" ELSE "None"]]

\* a decapsulation that returns the encapsulated secret under every key
KyberDecapsSinRechazo(private, ciphertext) == ciphertext[2]

\* ML_KEM_768.decaps / decrypt: the secret that was encapsulated when the
\* private key matches the public key of the ciphertext, otherwise (implicit
\* rejection) a secret that depends on the private key
KyberDecaps(private, ciphertext) ==
    IF ciphertext[2] = KyPublic(private[2]) THEN ciphertext[2] ELSE <<"rechazo", private[2]>>

IsKyberCiphertext(bytes) == Len(bytes) = 2 /\ bytes[1] = "kyber_ct"
IsKyPrivate(bytes) == Len(bytes) = 2 /\ bytes[1] = "kyber_private"

\* desencapsular_auditoria: False when Kyber is missing; every exception of
\* the decapsulation or of the comparison (a ciphertext or key of the wrong
\* size, None for the tag) is caught and returned as False with a message
DesencapsularAuditoria(ciphertext_kem, mensaje, auth_tag_esperado, clave_privada, kyber_available) ==
    IF ~kyber_available
    THEN [valido |-> FALSE, mensaje |-> "Kyber-768 no disponible"]
    ELSE IF \/ ~IsKyberCiphertext(ciphertext_kem)
            \/ ~IsKyPrivate(clave_privada)
            \/ auth_tag_esperado = NONE
    THEN [valido |-> FALSE, mensaje |-> "Error en desencapsulacion PQC"]
    ELSE IF <<"hmac", KyberDecaps(clave_privada, ciphertext_kem), mensaje>> = auth_tag_esperado
    THEN [valido |-> TRUE, mensaje |-> "Sello post-cuantico VALIDO."]
    ELSE [valido |-> FALSE, mensaje |-> "Sello post-cuantico INVALIDO."]

\* RuntimeError), the Kyber seal is optional (pqc_falla: _encapsular_hibrido
\* raised, and both seal fields stay None)
FirmarDual(mensaje, keypair, kyber_available, pqc_falla, now) ==
    IF mensaje = EMPTY \/ keypair.ed25519_private = EMPTY
    THEN [kind |-> "error", error |-> "ValueError"]
    ELSE IF ~IsEdPrivate(keypair.ed25519_private)
    THEN [kind |-> "error", error |-> "RuntimeError"]
    ELSE LET sellar == kyber_available /\ keypair.kyber_public # EMPTY /\ ~pqc_falla
             sello == EncapsularHibrido(mensaje, keypair)
         IN [kind |-> "ok",
             firma |-> [signature_classic |-> Ed25519Sign(keypair.ed25519_private, mensaje),
                        pqc_seal |-> IF sellar THEN sello.pqc_seal ELSE NONE,
                        pqc_auth_tag |-> IF sellar THEN sello.pqc_auth_tag ELSE NONE,
                        timestamp |-> Iso(now),
                        algorithm_classic |-> "Ed25519",
                        algorithm_pqc |-> IF kyber_available THEN "Kyber-768" ELSE "None"]]

\* DualSignature.to_dict
DualSignatureToDict(firma) ==
    [signature_classic |-> Hex(firma.signature_classic),
     pqc_seal |-> IF firma.pqc_seal \notin {NONE, EMPTY} THEN Hex(firma.pqc_seal) ELSE NONE,
     pqc_auth_tag |-> IF firma.pqc_auth_tag \notin {NONE, EMPTY}
                      THEN Hex(firma.pqc_auth_tag) ELSE NONE,
     timestamp |-> firma.timestamp,
     algorithm_classic |-> firma.algorithm_classic,
     algorithm_pqc |-> firma.algorithm_pqc]

\* a length check that takes every non-empty byte string for a key
Is32BytesNoVacio(bytes) == bytes # EMPTY

\* len(clave_publica_ed25519) = 32
Is32Bytes(bytes) == Len(bytes) = 2 /\ bytes[1] = "ed25519_public"

\* verificar_dual: ValueError on malformed parameters, otherwise the Ed25519
\* result (InvalidSignature is the boolean False); the seal is only reported
\* as present or absent and kyber_valido stays None
VerificarDual(mensaje, signature_classic, pqc_seal, pqc_auth_tag, clave_publica) ==
    IF mensaje = EMPTY \/ signature_classic \in {NONE, EMPTY} \/ ~Is32Bytes(clave_publica)
    THEN [kind |-> "error", error |-> "ValueError"]
    ELSE IF IsHex(signature_classic)
    THEN \* a str where bytes are expected: verify raises TypeError, which
         \* leaves as RuntimeError
         [kind |-> "error", error |-> "RuntimeError"]
    ELSE LET valido == Ed25519Verify(clave_publica, signature_classic, mensaje)
         IN [kind |-> "ok",
             exito_global |-> valido,
             ed25519_valido |-> valido,
             kyber_valido |-> NONE,
             mensaje_ed25519 |-> IF valido THEN "Firma Ed25519 valida."
                                 ELSE "Firma Ed25519 invalida.",
             mensaje_kyber |-> IF pqc_seal \notin {NONE, EMPTY} /\ pqc_auth_tag \notin {NONE, EMPTY}
                               THEN "Sello PQC presente."
                               ELSE "Sello PQC no presente."]

(***************************************************************************)
(* transaccion_forense / ForensicErrorHandler.__exit__: an exception of    *)
(* the wrapped function leaves as ForensicTransactionError.  When aee.core *)
(* could not be imported pqc_hybrid installs a decorator that passes the   *)
(* exception through.                                                      *)
(***************************************************************************)
TransaccionForense(resultado, core_available) ==
    IF resultado.kind = "error" /\ core_available
    THEN [kind |-> "error", error |-> "ForensicTransactionError", causa |-> resultado.error]
    ELSE IF resultado.kind = "error"
    THEN [kind |-> "error", error |-> resultado.error, causa |-> resultado.error]
    ELSE resultado

\* the RobustNTPQuorum pqc_hybrid defines when aee.core cannot be imported:
\* it asks no server and returns the local clock
LocalFallbackTimestamp(now) ==
    [kind |-> "ok",
     record |-> [timestamp_unix |-> now, timestamp_iso |-> Iso(now),
                 fuente |-> "local_fallback"]]

\* RobustNTPQuorum().obtener_timestamp_consenso() as pqc_hybrid sees it
QuorumDePqcHybrid(core_available, responses, now) ==
    IF core_available
    THEN ObtenerTimestampConsenso(responses, DefaultMinSuccessful, DefaultMaxDeviationMs)
    ELSE LocalFallbackTimestamp(now)

\* metadata or {}
MetadataOrEmpty(metadata) == IF metadata = NONE THEN <<"dict">> ELSE metadata

\* generar_certificado_hibrido, steps 1 to 3: certificado_base.  archivo is
\* the file as open() found it at step 1, archivo_stat the file as
\* archivo_path.stat() finds it at step 3, after the time quorum.
CertificadoBase(archivo, archivo_stat, timestamp_ntp, metadata, keypair) ==
    [hash_sha256 |-> Sha256(archivo.contenido),
     timestamp_ntp |-> timestamp_ntp,
     archivo |-> [nombre |-> archivo.nombre,
                  tamano_bytes |-> Len(archivo_stat.contenido)],
     metadata |-> MetadataOrEmpty(metadata),
     claves_publicas |-> KeyPairToDict(keypair)]

\* generar_certificado_hibrido without its decorator: open() and the hash,
\* the time quorum, stat(), the signature
GenerarCertificadoHibridoInner(archivo, archivo_stat, keypair, metadata, core_available, kyber_available, responses, pqc_falla, now) ==
    IF ~archivo.existe
    THEN [kind |-> "error", error |-> "FileNotFoundError"]
    ELSE LET quorum == QuorumDePqcHybrid(core_available, responses, now)
         IN IF quorum.kind = "error"
            THEN quorum
            ELSE IF ~archivo_stat.existe
            THEN [kind |-> "error", error |-> "FileNotFoundError"]
            ELSE LET base == CertificadoBase(archivo, archivo_stat, quorum.record,
                                             metadata, keypair)
                     firma == FirmarDual(SerializeBase(base), keypair,
                                         kyber_available, pqc_falla, now)
                 IN IF firma.kind = "error"
                    THEN firma
                    ELSE [kind |-> "ok",
                          certificado |->
                            [tipo |-> "hibrido",
                             hash_sha256 |-> base.hash_sha256,
                             timestamp_ntp |-> base.timestamp_ntp,
                             archivo |-> base.archivo,
                             metadata |-> base.metadata,
                             claves_publicas |-> base.claves_publicas,
                             firmas |-> DualSignatureToDict(firma.firma),
                             version_protocolo |-> "2.2.0-HybridPQC",
                             fecha_certificacion |-> Iso(now)]]

\* @transaccion_forense generar_certificado_hibrido
GenerarCertificadoHibrido(archivo, archivo_stat, keypair, metadata, core_available, kyber_available, responses, pqc_falla, now) ==
    TransaccionForense(
        GenerarCertificadoHibridoInner(archivo, archivo_stat, keypair, metadata, core_available,
                                       kyber_available, responses, pqc_falla, now),
        core_available)

(***************************************************************************)
(* Verification reports.  Every verifier reports, per stage, "ok", "fallo" *)
(* or "no_evaluado" (the stage did not run and the report has no entry for *)
(* it); exitoso is its overall result, mensaje its summary, and error the  *)
(* exception that left the verifier ("" when it returned).                 *)
(***************************************************************************)
Reporte(op, hash, sello, firma, exitoso, mensaje, error) ==
    [op |-> op, hash |-> hash, sello_temporal |-> sello, firma |-> firma,
     exitoso |-> exitoso, mensaje |-> mensaje, error |-> error]

Etapa(b) == IF b THEN "ok" ELSE "fallo"

\* verificar_certificado_hibrido, step 2: the certificate's own fields are
\* put together again for the signature check, without the file name
CertificadoBaseDeSinArchivo(certificado) ==
    [hash_sha256 |-> certificado.hash_sha256,
     timestamp_ntp |-> certificado.timestamp_ntp,
     archivo |-> [nombre |-> "", tamano_bytes |-> 0],
     metadata |-> certificado.metadata,
     claves_publicas |-> certificado.claves_publicas]

\* verificar_certificado_hibrido, step 2: certificado_base rebuilt from the
\* certificate's stored fields
CertificadoBaseDe(certificado) ==
    [hash_sha256 |-> certificado.hash_sha256,
     timestamp_ntp |-> certificado.timestamp_ntp,
     archivo |-> certificado.archivo,
     metadata |-> certificado.metadata,
     claves_publicas |-> certificado.claves_publicas]

\* hmac.compare_digest(hash_calculado, certificado.get('hash_sha256', ''))
HashCoincide(archivo, certificado) == Sha256(archivo.contenido) = certificado.hash_sha256

\* bytes.fromhex(firmas_dict[campo]) if firmas_dict.get(campo) else None:
\* None and '' are skipped, any other text is decoded and a text that is no
\* hex makes bytes.fromhex raise ValueError
\* a decoding that takes an absent field for an error
HexObligatorio(text) == IsHex(text)

HexOpcionalBien(text) == text \in {NONE, EMPTY} \/ IsHex(text)
FromHexOpcional(text) == IF text \in {NONE, EMPTY} THEN NONE ELSE FromHex(text)

\* verificar_certificado_hibrido: hash stage, then the classical signature
\* over the rebuilt payload; every exception is caught and reported as a
\* critical error in the message
VerificarCertificadoHibrido(archivo, certificado) ==
    IF ~archivo.existe
    THEN Reporte("hibrido", "no_evaluado", "no_evaluado", "no_evaluado", FALSE,
                 "Error critico en verificacion", "")
    ELSE IF ~HashCoincide(archivo, certificado)
    THEN Reporte("hibrido", "fallo", "no_evaluado", "no_evaluado", FALSE,
                 "Fallo en verificacion de hash del archivo.", "")
    ELSE IF \/ ~IsHex(certificado.claves_publicas.ed25519_public)
            \/ ~IsHex(certificado.firmas.signature_classic)
            \/ ~HexOpcionalBien(certificado.firmas.pqc_seal)
            \/ ~HexOpcionalBien(certificado.firmas.pqc_auth_tag)
    THEN Reporte("hibrido", "ok", "no_evaluado", "no_evaluado", FALSE,
                 "Error critico en verificacion", "")
    ELSE LET dual == VerificarDual(
                        SerializeBase(CertificadoBaseDe(certificado)),
                        FromHex(certificado.firmas.signature_classic),
                        FromHexOpcional(certificado.firmas.pqc_seal),
                        FromHexOpcional(certificado.firmas.pqc_auth_tag),
                        FromHex(certificado.claves_publicas.ed25519_public))
         IN IF dual.kind = "error"
            THEN Reporte("hibrido", "ok", "no_evaluado", "no_evaluado", FALSE,
                         "Error critico en verificacion", "")
            ELSE Reporte("hibrido", "ok", "no_evaluado", Etapa(dual.ed25519_valido),
                         dual.exito_global,
                         IF dual.exito_global
                         THEN "Certificado valido (firma clasica Ed25519 verificada)."
                         ELSE "Certificado invalido (la firma clasica Ed25519 no es valida).",
                         "")


(***************************************************************************)
(* NotarioAEE.certificar_archivo (src/aee/notario_pqc.py)                  *)
(***************************************************************************)
\* the state of the file at certificado_output_path
DiscoAusente == [estado |-> "ausente"]
DiscoParcial == [estado |-> "parcial"]
DiscoCompleto(certificado) == [estado |-> "completo", certificado |-> certificado]

\* serialize(payload_firmado)
SerializePayloadFirmado(p) ==
    <<"{", <<"auditor_id", p.auditor_id>>, <<"hash_sha256", p.hash_sha256>>,
           <<"protocolo_version", p.protocolo_version>>,
           <<"timestamp_iso", p.timestamp_iso>>, "}">>

\* steps 2 to 7 of certificar_archivo: the certificate dictionary
CertificadoNotario(archivo, auditor_key, timestamp_data) ==
    LET file_hash == Sha256(archivo.contenido)
        payload_firmado == [hash_sha256 |-> file_hash,
                            timestamp_iso |-> timestamp_data.timestamp_iso,
                            auditor_id |-> <<"auditor", auditor_key>>,
                            protocolo_version |-> "2.2.0-Refactored"]
    IN [tipo |-> "notario",
        encabezado |-> [titulo |-> "Certificado de Evidencia Digital AEE",
                        version_protocolo |-> "2.2.0-Refactored",
                        id_certificado |-> <<"AEE", timestamp_data.timestamp_unix, file_hash>>],
        auditor |-> [id |-> <<"auditor", auditor_key>>,
                     algoritmo_clave |-> "Ed25519",
                     clave_publica_hex |-> Hex(EdPublic(auditor_key))],
        evidencia |-> [nombre_archivo |-> archivo.nombre,
                       hash_sha256 |-> file_hash,
                       metadatos_forenses |-> [size_bytes |-> Len(archivo.contenido)]],
        sello_temporal |-> timestamp_data,
        firma_digital |-> [algoritmo |-> "Ed25519",
                           valor_hex |-> Hex(Ed25519Sign(EdPrivate(auditor_key),
                                              SerializePayloadFirmado(payload_firmado))),
                           payload_firmado |-> payload_firmado]]

\* certificar_archivo without its decorator.  falla_io is what the file
\* system does at step 8: "ninguna", "open" (open() raises, nothing is
\* written) or "write" (json.dump raises after open() created the file).
\* The result carries the state of the output file afterwards.
\* archivo is the file as file_path.exists() found it, archivo_hash the file
\* as _calcular_hash_archivo and _obtener_metadatos_forenses find it after
\* the time quorum.
CertificarArchivoInner(archivo, archivo_hash, auditor_key, responses, falla_io, disco) ==
    IF ~archivo.existe
    THEN [kind |-> "error", error |-> "FileNotFoundError", disco |-> disco]
    ELSE LET quorum == ObtenerTimestampConsenso(responses, DefaultMinSuccessful,
                                                DefaultMaxDeviationMs)
         IN IF quorum.kind = "error"
            THEN [kind |-> "error", error |-> "RuntimeError", disco |-> disco]
            ELSE IF ~archivo_hash.existe
            THEN [kind |-> "error", error |-> "FileNotFoundError", disco |-> disco]
            ELSE LET certificado == CertificadoNotario(archivo_hash, auditor_key,
                                                       quorum.record)
                 IN IF falla_io = "open"
                    THEN [kind |-> "error", error |-> "OSError", disco |-> disco]
                    ELSE IF falla_io = "write"
                    THEN [kind |-> "error", error |-> "OSError", disco |-> DiscoParcial]
                    ELSE [kind |-> "ok", certificado |-> certificado,
                          disco |-> DiscoCompleto(certificado)]

\* @transaccion_forense certificar_archivo: no backup and no temporary file
\* is registered, so _rollback restores and deletes nothing
CertificarArchivo(archivo, archivo_hash, auditor_key, responses, falla_io, disco) ==
    LET r == CertificarArchivoInner(archivo, archivo_hash, auditor_key, responses,
                                    falla_io, disco)
    IN IF r.kind = "error"
       THEN [kind |-> "error", error |-> "ForensicTransactionError",
             causa |-> r.error, disco |-> r.disco]
       ELSE r

(***************************************************************************)
(* IntegrityVerifier (src/aee/core.py)                                     *)
(***************************************************************************)
\* verificar_timestamp_quorum: required fields, at least 3 successful
\* servers, a standard deviation of at most 1000 ms and, when max_age_hours
\* is given, an age of at most that
VerificarTimestampQuorum(timestamp_data, con_max_age, max_age_ms, now) ==
    /\ {"timestamp_unix", "servidores_exitosos", "desviacion_estandar_ms"}
          \subseteq DOMAIN timestamp_data
    /\ timestamp_data.servidores_exitosos >= MinQuorumVerificador
    /\ timestamp_data.desviacion_estandar_ms <= MaxDesviacionVerificador * 100
    /\ con_max_age => now - timestamp_data.timestamp_unix <= max_age_ms

\* verificar_firma_ed25519: never raises; a value that is no hex text or no
\* key gives False
VerificarFirmaEd25519(mensaje, firma_hex, clave_publica_hex) ==
    /\ IsHex(firma_hex)
    /\ IsHex(clave_publica_hex)
    /\ Is32Bytes(FromHex(clave_publica_hex))
    /\ Ed25519Verify(FromHex(clave_publica_hex), FromHex(firma_hex), mensaje)

\* verificar_integridad_total: hash, then time seal, then signature, and it
\* returns at the first stage that fails
VerificarIntegridadTotal(archivo, certificado, now) ==
    IF ~archivo.existe
    THEN Reporte("notario", "no_evaluado", "no_evaluado", "no_evaluado", FALSE,
                 "", "FileNotFoundError")
    ELSE IF Sha256(archivo.contenido) # certificado.evidencia.hash_sha256
    THEN Reporte("notario", "fallo", "no_evaluado", "no_evaluado", FALSE,
                 "Fallo en verificacion de hash del archivo.", "")
    ELSE IF ~VerificarTimestampQuorum(certificado.sello_temporal, FALSE, 0, now)
    THEN Reporte("notario", "ok", "fallo", "no_evaluado", FALSE,
                 "Fallo en verificacion del sello temporal.", "")
    ELSE IF DOMAIN certificado.firma_digital.payload_firmado = {}
    THEN Reporte("notario", "ok", "ok", "no_evaluado", FALSE, "", "ValueError")
    ELSE IF ~VerificarFirmaEd25519(
                 SerializePayloadFirmado(certificado.firma_digital.payload_firmado),
                 certificado.firma_digital.valor_hex,
                 certificado.auditor.clave_publica_hex)
    THEN Reporte("notario", "ok", "ok", "fallo", FALSE,
                 "Fallo en verificacion de la firma digital.", "")
    ELSE Reporte("notario", "ok", "ok", "ok", TRUE,
                 "VERIFICACION EXITOSA: La evidencia es integra y autentica.", "")


(***************************************************************************)
(* The REST endpoints (src/aee/api/routes.py) and the repositories behind  *)
(* them (src/aee/infrastructure/database.py)                               *)
(***************************************************************************)
\* the certificates and audit_logs tables
DbVacia == [certificates |-> {}, audit_logs |-> {}]

\* CertificateRepository.create: db.add, db.commit, db.refresh.  The column
\* hash_sha256 is unique: the commit of a second row with the hash of an
\* existing one raises IntegrityError and adds nothing.
CertificateRepositoryCreate(db, cert_data) ==
    IF \E c \in db.certificates : c.hash_sha256 = cert_data.hash_sha256
    THEN [kind |-> "error", error |-> "IntegrityError", db |-> db]
    ELSE [kind |-> "ok", db |-> [db EXCEPT !.certificates = @ \cup {cert_data}]]

\* AuditLogRepository.log: db.add, db.commit
AuditLogRepositoryLog(db, operation, action_result) ==
    [db EXCEPT !.audit_logs = @ \cup {<<operation, action_result>>}]

\* the firmas of the /certify response: the handler passes four keys and
\* DualSignatureResponse fills algorithm_classic and algorithm_pqc with its
\* defaults, whatever the DualSignature says
DualSignatureResponse(firma) ==
    [signature_classic |-> Hex(firma.signature_classic),
     pqc_seal |-> IF firma.pqc_seal \notin {NONE, EMPTY} THEN Hex(firma.pqc_seal) ELSE NONE,
     pqc_auth_tag |-> IF firma.pqc_auth_tag \notin {NONE, EMPTY}
                      THEN Hex(firma.pqc_auth_tag) ELSE NONE,
     timestamp |-> firma.timestamp,
     algorithm_classic |-> "Ed25519",
     algorithm_pqc |-> "Kyber-768"]

\* request.metadata.dict() if request.metadata else {}
MetadataDeRequest(metadata) == IF metadata = NONE THEN <<"dict">> ELSE metadata

\* what can go wrong around the /certify handler's own steps
FallasCertify ==
    {"ninguna", "timeout_claves", "timeout_ntp", "timeout_firma", "db_create", "db_audit"}

HttpError(codigo, db) == [kind |-> "error", http |-> codigo, db |-> db]

\* POST /api/v1/certify.  request is [filename, file_hash, file_size_bytes,
\* metadata], already validated by CertifyRequest.
CertifyEndpoint(request, k, kyber_available, responses, falla, pqc_falla, now, db) ==
    IF falla = "timeout_claves" THEN HttpError(504, db)
    ELSE IF falla = "timeout_ntp" THEN HttpError(504, db)
    ELSE
    LET keypair == GenerarParClavesHibrido(k, kyber_available, now)
        ntp == ObtenerTimestampConsenso(responses, DefaultMinSuccessful,
                                        DefaultMaxDeviationMs)
    IN IF ntp.kind = "error" THEN HttpError(503, db)
       ELSE
       LET cert_base == [hash_sha256 |-> request.file_hash,
                         timestamp_ntp |-> ntp.record,
                         archivo |-> [nombre |-> request.filename,
                                      tamano_bytes |-> request.file_size_bytes],
                         metadata |-> MetadataDeRequest(request.metadata),
                         claves_publicas |-> KeyPairToDict(keypair)]
           dual_sig == FirmarDual(SerializeBase(cert_base), keypair,
                                  kyber_available, pqc_falla, now)
       IN IF falla = "timeout_firma" THEN HttpError(504, db)
          ELSE IF dual_sig.kind = "error" THEN HttpError(422, db)
          ELSE
          LET firmas == DualSignatureResponse(dual_sig.firma)
              cert_data == [filename |-> request.filename,
                            hash_sha256 |-> request.file_hash,
                            file_size_bytes |-> request.file_size_bytes,
                            ed25519_public |-> Hex(keypair.ed25519_public),
                            kyber_public |-> Hex(keypair.kyber_public),
                            signature_classic |-> firmas.signature_classic,
                            pqc_seal |-> firmas.pqc_seal,
                            pqc_auth_tag |-> firmas.pqc_auth_tag,
                            metadata |-> request.metadata,
                            timestamp_ntp |-> ntp.record]
              creado == CertificateRepositoryCreate(db, cert_data)
          IN IF falla = "db_create" THEN HttpError(500, db)
             ELSE IF creado.kind = "error" THEN HttpError(500, db)
             ELSE IF falla = "db_audit" THEN HttpError(500, creado.db)
             ELSE [kind |-> "ok", http |-> 201,
                   db |-> AuditLogRepositoryLog(creado.db, "CERTIFY", "SUCCESS"),
                   certificado |->
                     [tipo |-> "api",
                      hash_sha256 |-> request.file_hash,
                      timestamp_ntp |-> ntp.record,
                      archivo |-> cert_base.archivo,
                      metadata |-> cert_base.metadata,
                      claves_publicas |-> cert_base.claves_publicas,
                      firmas |-> firmas,
                      version_protocolo |-> "2.2.0-HybridPQC",
                      fecha_certificacion |-> Iso(now),
                      estado |-> "VIGENTE"]]

\* request.certificado.firmas is a DualSignatureResponse, a pydantic model:
\* it has the fields as attributes and no method get
DualSignatureResponseHasGet == FALSE

\* POST /api/v1/verify.  hash_match is computed first and nothing returns
\* on a mismatch; f.get('signature_classic') is the first use of firmas.
VerifyEndpoint(file_hash, certificado) ==
    LET hash_match == file_hash = certificado.hash_sha256
        mensaje_canonical == SerializeBase(CertificadoBaseDe(certificado))
        f == certificado.firmas
    IN IF ~DualSignatureResponseHasGet
       THEN Reporte("api", "no_evaluado", "no_evaluado", "no_evaluado", FALSE,
                    "Error al procesar formato del certificado", "HTTP 422")
       ELSE IF f.signature_classic = EMPTY \/ ~IsHex(f.signature_classic)
       THEN Reporte("api", "no_evaluado", "no_evaluado", "no_evaluado", FALSE,
                    "signature_classic", "HTTP 422")
       ELSE IF \/ certificado.claves_publicas.ed25519_public = EMPTY
               \/ ~IsHex(certificado.claves_publicas.ed25519_public)
               \/ ~Is32Bytes(FromHex(certificado.claves_publicas.ed25519_public))
       THEN Reporte("api", "no_evaluado", "no_evaluado", "no_evaluado", FALSE,
                    "ed25519_public", "HTTP 422")
       ELSE LET dual == VerificarDual(mensaje_canonical, FromHex(f.signature_classic),
                                      f.pqc_seal, f.pqc_auth_tag,
                                      FromHex(certificado.claves_publicas.ed25519_public))
            IN IF dual.kind = "error"
               THEN Reporte("api", "no_evaluado", "no_evaluado", "no_evaluado", FALSE,
                            "Error en verificacion criptografica", "HTTP 422")
               ELSE Reporte("api", Etapa(hash_match), "no_evaluado",
                            Etapa(dual.exito_global),
                            hash_match /\ dual.exito_global,
                            IF hash_match /\ dual.exito_global
                            THEN "Certificado valido"
                            ELSE "Fallo de integridad o autenticidad",
                            "")


(***************************************************************************)
(* SpecCert: one certification, then the certificate and the file travel   *)
(* to a verifier (either may be changed once on the way), then one         *)
(* verification.  The certification takes two steps: its first look at the *)
(* file, and everything from the time quorum on; while it waits in between *)
(* the file can change and the API can serve another request.              *)
(***************************************************************************)
\* at most this many of the time servers are far off
MaxFar == 1
\* at most this many other requests are served while /certify awaits
MaxOtras == 1

NearReading == Reading(Grid)
FarReading == Reading(Grid + 2 * HalfFarSkewMs)
LocalClocks == {Grid, Grid + 2 * HalfFarSkewMs}

\* the answers of the NumDefaultServers default servers when the last
\* fallan of them do not answer and the lejos before those are far off
NtpResponses(fallan, lejos) ==
    [i \in 1..NumDefaultServers |->
        QueryServer(i, IF i > NumDefaultServers - fallan THEN FALLO
                       ELSE IF i > NumDefaultServers - fallan - lejos THEN FarReading
                       ELSE NearReading)]

NtpProfiles ==
    {NtpResponses(fallan, lejos) :
        fallan \in 0..NumDefaultServers,
        lejos \in 0..MaxFar} 

Metadatas == {NONE, <<"dict", "caso", "2025-001">>}
NombreArchivo == "evidencia.bin"

CInit ==
    /\ QReposo
    /\ FReposo
    /\ JReposo
    /\ TReposo
    /\ c_core \in BOOLEAN
    /\ c_kyber \in BOOLEAN
    /\ c_now \in LocalClocks
    /\ c_archivo \in [existe : BOOLEAN, nombre : {NombreArchivo}, contenido : Contents]
    /\ c_pc = "inicio"
    /\ c_outcome = [op |-> "", kind |-> "pendiente", error |-> "", http |-> 0]
    /\ c_consulta = [kind |-> "no_consultado"]
    /\ c_emitido = SinCertificado
    /\ c_cert = SinCertificado
    /\ c_alterado = ""
    /\ c_archivo_cert = <<>>
    /\ c_llamada = SinLlamada
    /\ c_disco = DiscoAusente
    /\ c_db = DbVacia
    /\ c_report = SinReporte

\* what RobustNTPQuorum().obtener_timestamp_consenso() made of the servers'
\* answers, when the servers were asked
Consulta(consultado, responses) ==
    IF consultado
    THEN ObtenerTimestampConsenso(responses, DefaultMinSuccessful, DefaultMaxDeviationMs)
    ELSE [kind |-> "no_consultado"]

\* the operation starts and looks at the file for the first time:
\* generar_certificado_hibrido opens and hashes it (step 1),
\* certificar_archivo asks file_path.exists(), the client of /certify hashes
\* it and sends the request.  What follows in each of them waits: for the
\* time servers, or in the handler's three awaits.
CAbrirArchivo ==
    /\ c_pc = "inicio"
    /\ c_llamada' = [op |-> "hibrido", archivo |-> c_archivo]
    /\ c_pc' = "esperando"
    /\ UNCHANGED <<c_core, c_kyber, c_now, c_archivo, c_outcome, c_consulta, c_emitido,
                   c_cert, c_alterado, c_archivo_cert, c_disco, c_db, c_report>>
    /\ UNCHANGED <<qvars, fvars, jvars, tvars>>

\* the module imports aee.core itself, so it only loads when that import works
CComprobarArchivo ==
    /\ c_pc = "inicio"
    /\ c_core
    /\ c_llamada' = [op |-> "notario", archivo |-> c_archivo]
    /\ c_pc' = "esperando"
    /\ UNCHANGED <<c_core, c_kyber, c_now, c_archivo, c_outcome, c_consulta, c_emitido,
                   c_cert, c_alterado, c_archivo_cert, c_disco, c_db, c_report>>
    /\ UNCHANGED <<qvars, fvars, jvars, tvars>>

CRecibirCertify ==
    /\ c_pc = "inicio"
    /\ c_core
    /\ c_archivo.existe
    /\ c_llamada' = [op |-> "api", archivo |-> c_archivo]
    /\ c_pc' = "esperando"
    /\ UNCHANGED <<c_core, c_kyber, c_now, c_archivo, c_outcome, c_consulta, c_emitido,
                   c_cert, c_alterado, c_archivo_cert, c_disco, c_db, c_report>>
    /\ UNCHANGED <<qvars, fvars, jvars, tvars>>

\* while the operation waits for the time servers another process
\* overwrites or deletes the file
CArchivoCambiaEnEspera ==
    /\ c_pc = "esperando"
    /\ c_llamada.op \in {"hibrido", "notario"}
    /\ c_archivo = c_llamada.archivo
    /\ c_archivo.existe
    /\ \/ \E c \in Contents \ {c_archivo.contenido} :
             c_archivo' = [c_archivo EXCEPT !.contenido = c]
       \/ c_archivo' = [c_archivo EXCEPT !.existe = FALSE]
    /\ UNCHANGED <<c_core, c_kyber, c_now, c_pc, c_outcome, c_consulta, c_emitido,
                   c_cert, c_alterado, c_archivo_cert, c_llamada, c_disco, c_db,
                   c_report>>
    /\ UNCHANGED <<qvars, fvars, jvars, tvars>>

\* while the handler of /certify awaits, the event loop runs the handler of
\* another request to its end: a valid request for a file of content c, all
\* servers answering, nothing failing
COtraPeticion ==
    /\ c_pc = "esperando"
    /\ c_llamada.op = "api"
    /\ Cardinality(c_db.certificates) < MaxOtras
    /\ \E c \in Contents \ {EMPTY}, k \in KeyIds :
          LET request == [filename |-> "otro.bin", file_hash |-> Sha256(c),
                          file_size_bytes |-> Len(c), metadata |-> NONE]
              r == CertifyEndpoint(request, k, c_kyber, NtpResponses(0, 0),
                                   "ninguna", FALSE, c_now, c_db)
          IN /\ r.kind = "ok"
             /\ c_db' = r.db
    /\ UNCHANGED <<c_core, c_kyber, c_now, c_archivo, c_pc, c_outcome, c_consulta,
                   c_emitido, c_cert, c_alterado, c_archivo_cert, c_llamada, c_disco,
                   c_report>>
    /\ UNCHANGED <<qvars, fvars, jvars, tvars>>

\* generar_certificado_hibrido(file_path, keypair, metadata), from the time
\* quorum on: c_llamada.archivo is the file that was hashed, c_archivo the
\* file stat() finds
CGenerarCertificadoHibrido ==
    /\ c_pc = "esperando"
    /\ c_llamada.op = "hibrido"
    /\ \E k \in KeyIds, metadata \in Metadatas, responses \in NtpProfiles,
          pqc_falla \in BOOLEAN :
          LET keypair == GenerarParClavesHibrido(k, c_kyber, c_now)
              r == GenerarCertificadoHibrido(c_llamada.archivo, c_archivo, keypair,
                                             metadata, c_core, c_kyber, responses,
                                             pqc_falla, c_now)
          IN /\ c_outcome' = [op |-> "hibrido", kind |-> r.kind,
                              error |-> IF r.kind = "error" THEN r.error ELSE "",
                              http |-> 0]
             /\ c_consulta' = Consulta(c_llamada.archivo.existe /\ c_core, responses)
             /\ c_emitido' = IF r.kind = "ok" THEN r.certificado ELSE SinCertificado
             /\ c_cert' = c_emitido'
    /\ c_archivo_cert' = c_llamada.archivo.contenido
    /\ c_pc' = "certificado"
    /\ UNCHANGED <<c_core, c_kyber, c_now, c_archivo, c_alterado, c_llamada, c_disco,
                   c_db, c_report>>
    /\ UNCHANGED <<qvars, fvars, jvars, tvars>>

\* NotarioAEE(auditor_id).certificar_archivo(file_path, output_path), from
\* the time quorum on: c_llamada.archivo is the file exists() saw, c_archivo
\* the file that is hashed
CCertificarArchivo ==
    /\ c_pc = "esperando"
    /\ c_llamada.op = "notario"
    /\ \E k \in KeyIds, responses \in NtpProfiles,
          falla_io \in {"ninguna", "open", "write"} :
          LET r == CertificarArchivo(c_llamada.archivo, c_archivo, k, responses,
                                     falla_io, c_disco)
          IN /\ c_outcome' = [op |-> "notario", kind |-> r.kind,
                              error |-> IF r.kind = "error" THEN r.error ELSE "",
                              http |-> 0]
             /\ c_consulta' = Consulta(c_llamada.archivo.existe, responses)
             /\ c_emitido' = IF r.kind = "ok" THEN r.certificado ELSE SinCertificado
             /\ c_cert' = c_emitido'
             /\ c_disco' = r.disco
    /\ c_archivo_cert' = c_archivo.contenido
    /\ c_pc' = "certificado"
    /\ UNCHANGED <<c_core, c_kyber, c_now, c_archivo, c_alterado, c_llamada, c_db,
                   c_report>>
    /\ UNCHANGED <<qvars, fvars, jvars, tvars>>

\* CertifyRequest: file_size_bytes has gt=0, so the request for an empty
\* file never reaches the handler
CertifyRequestValida(request) == request.file_size_bytes > 0

\* POST /api/v1/certify by a client that has the file: the handler, run to
\* its end on the database as it is when its awaits are over
CCertify ==
    /\ c_pc = "esperando"
    /\ c_llamada.op = "api"
    /\ \E k \in KeyIds, metadata \in Metadatas, responses \in NtpProfiles,
          falla \in FallasCertify, pqc_falla \in BOOLEAN :
          LET request == [filename |-> c_llamada.archivo.nombre,
                          file_hash |-> Sha256(c_llamada.archivo.contenido),
                          file_size_bytes |-> Len(c_llamada.archivo.contenido),
                          metadata |-> metadata]
              r == IF CertifyRequestValida(request)
                   THEN CertifyEndpoint(request, k, c_kyber, responses, falla,
                                        pqc_falla, c_now, c_db)
                   ELSE HttpError(422, c_db)
          IN /\ c_outcome' = [op |-> "api", kind |-> r.kind,
                              error |-> IF r.kind = "error" THEN "HTTPException" ELSE "",
                              http |-> r.http]
             /\ c_consulta' = Consulta(CertifyRequestValida(request)
                                         /\ falla \notin {"timeout_claves", "timeout_ntp"},
                                       responses)
             /\ c_emitido' = IF r.kind = "ok" THEN r.certificado ELSE SinCertificado
             /\ c_cert' = c_emitido'
             /\ c_db' = r.db
    /\ c_archivo_cert' = c_llamada.archivo.contenido
    /\ c_pc' = "certificado"
    /\ UNCHANGED <<c_core, c_kyber, c_now, c_archivo, c_alterado, c_llamada, c_disco,
                   c_report>>
    /\ UNCHANGED <<qvars, fvars, jvars, tvars>>


(***************************************************************************)
(* Between certification and verification: whoever carries the certificate *)
(* changes one of its fields, or the file is replaced.                     *)
(***************************************************************************)
CamposHibrido ==
    {"hash_sha256", "timestamp_ntp", "archivo", "metadata", "claves_publicas", "firmas",
     "sello_pqc", "estructura", "no_firmado"}
CamposNotario == {"evidencia", "sello_temporal", "firma_digital", "estructura"}
\* the fields of certificado_base
CamposFirmados == {"hash_sha256", "timestamp_ntp", "archivo", "metadata", "claves_publicas"}

\* the certificates that differ from cert in a field certificado_base does
\* not have: version_protocolo, fecha_certificacion, firmas.timestamp
NoFirmadosAlterados(cert) ==
    {[cert EXCEPT !.version_protocolo = "0.0.0"],
     [cert EXCEPT !.fecha_certificacion = Iso(@[2] + Grid)],
     [cert EXCEPT !.firmas.timestamp = Iso(@[2] + Grid)]}

\* the certificates that differ from cert in well-formed values of the seal
\* and tag: both absent, or the hex of other bytes
SellosBienFormados(cert) ==
    {[cert EXCEPT !.firmas.pqc_seal = NONE, !.firmas.pqc_auth_tag = NONE],
     [cert EXCEPT !.firmas.pqc_seal = Hex(<<"kyber_ct", EMPTY>>),
                  !.firmas.pqc_auth_tag = Hex(<<"hmac", EMPTY, EMPTY>>)]}

\* the certificates (of hybrid layout) that differ from cert in field campo
AlteradosHibrido(cert, campo) ==
    CASE campo = "hash_sha256" ->
           {[cert EXCEPT !.hash_sha256 = Sha256(c)] :
               c \in Contents \ {cert.hash_sha256[2]}}
      [] campo = "timestamp_ntp" ->
           {[cert EXCEPT !.timestamp_ntp.timestamp_unix = @ + Grid]}
      [] campo = "archivo" ->
           {[cert EXCEPT !.archivo.nombre = "otro.bin"]}
      [] campo = "metadata" ->
           {[cert EXCEPT !.metadata = <<"dict", "caso", "alterado">>]}
      [] campo = "claves_publicas" ->
           {[cert EXCEPT !.claves_publicas.ed25519_public = Hex(EdPublic(k))] :
               k \in KeyIds \ {cert.claves_publicas.ed25519_public[2][2]}}
      [] campo = "firmas" ->
           {[cert EXCEPT !.firmas.signature_classic =
                 Hex(<<"ed25519_sig", cert.claves_publicas.ed25519_public[2][2], EMPTY>>)]}
      [] campo = "sello_pqc" ->
           \* the seal and its tag removed, replaced by those of another
           \* message, or the seal replaced by a text that is no hex
           SellosBienFormados(cert) \cup {[cert EXCEPT !.firmas.pqc_seal = <<"texto", "zz">>]}
      [] campo = "no_firmado" -> NoFirmadosAlterados(cert)
      [] campo = "estructura" ->
           \* the signature replaced by a text that is no hex, or the public
           \* key by the hex of 31 bytes
           {[cert EXCEPT !.firmas.signature_classic = <<"texto", "zz">>],
            [cert EXCEPT !.claves_publicas.ed25519_public = Hex(<<"bytes", 31>>)]}

\* the notary certificates that differ from cert in section campo
AlteradosNotario(cert, campo) ==
    CASE campo = "evidencia" ->
           {[cert EXCEPT !.evidencia.hash_sha256 = Sha256(c)] :
               c \in Contents \ {cert.evidencia.hash_sha256[2]}}
      [] campo = "sello_temporal" ->
           {[cert EXCEPT !.sello_temporal.timestamp_unix = @ + Grid]}
      [] campo = "firma_digital" ->
           {[cert EXCEPT !.firma_digital.valor_hex =
                 Hex(<<"ed25519_sig", cert.auditor.clave_publica_hex[2][2], EMPTY>>)]}
      [] campo = "estructura" ->
           \* the signature replaced by a text that is no hex, the public key
           \* by the hex of 31 bytes, or the signed payload taken out
           {[cert EXCEPT !.firma_digital.valor_hex = <<"texto", "zz">>],
            [cert EXCEPT !.auditor.clave_publica_hex = Hex(<<"bytes", 31>>)],
            [cert EXCEPT !.firma_digital.payload_firmado = <<>>]}

CAlterarCertificado ==
    /\ c_pc = "certificado"
    /\ c_cert # SinCertificado
    /\ c_alterado = ""
    /\ \E campo \in CamposHibrido \cup CamposNotario :
          /\ campo \in (IF c_cert.tipo = "notario" THEN CamposNotario ELSE CamposHibrido)
          /\ c_cert' \in (IF c_cert.tipo = "notario"
                          THEN AlteradosNotario(c_cert, campo)
                          ELSE AlteradosHibrido(c_cert, campo))
          /\ c_alterado' = campo
    /\ UNCHANGED <<c_core, c_kyber, c_now, c_archivo, c_pc, c_outcome, c_consulta,
                   c_emitido, c_archivo_cert, c_llamada, c_disco,
                   c_db, c_report>>
    /\ UNCHANGED <<qvars, fvars, jvars, tvars>>

\* the file is overwritten with other content (test_adversarial.py, test 1)
CAlterarArchivo ==
    /\ c_pc = "certificado"
    /\ c_archivo.existe
    /\ c_archivo.contenido = c_archivo_cert
    /\ \E c \in Contents \ {c_archivo.contenido} :
          c_archivo' = [c_archivo EXCEPT !.contenido = c]
    /\ UNCHANGED <<c_core, c_kyber, c_now, c_pc, c_outcome, c_consulta, c_emitido,
                   c_cert, c_alterado, c_archivo_cert, c_llamada, c_disco,
                   c_db, c_report>>
    /\ UNCHANGED <<qvars, fvars, jvars, tvars>>

(***************************************************************************)
(* Verification                                                            *)
(***************************************************************************)
\* verificar_certificado_hibrido(file_path, certificado)
CVerificarCertificadoHibrido ==
    /\ c_pc = "certificado"
    /\ c_cert.tipo = "hibrido"
    /\ c_report' = VerificarCertificadoHibrido(c_archivo, c_cert)
    /\ c_pc' = "verificado"
    /\ UNCHANGED <<c_core, c_kyber, c_now, c_archivo, c_outcome, c_consulta, c_emitido,
                   c_cert, c_alterado, c_archivo_cert, c_llamada, c_disco, c_db>>
    /\ UNCHANGED <<qvars, fvars, jvars, tvars>>

\* IntegrityVerifier().verificar_integridad_total(archivo_path, certificado)
CVerificarIntegridadTotal ==
    /\ c_pc = "certificado"
    /\ c_cert.tipo = "notario"
    /\ c_report' = VerificarIntegridadTotal(c_archivo, c_cert, c_now)
    /\ c_pc' = "verificado"
    /\ UNCHANGED <<c_core, c_kyber, c_now, c_archivo, c_outcome, c_consulta, c_emitido,
                   c_cert, c_alterado, c_archivo_cert, c_llamada, c_disco, c_db>>
    /\ UNCHANGED <<qvars, fvars, jvars, tvars>>

\* POST /api/v1/verify with the hash of the file the client holds
CVerify ==
    /\ c_pc = "certificado"
    /\ c_cert.tipo = "api"
    /\ c_report' = VerifyEndpoint(Sha256(c_archivo.contenido), c_cert)
    /\ c_pc' = "verificado"
    /\ UNCHANGED <<c_core, c_kyber, c_now, c_archivo, c_outcome, c_consulta, c_emitido,
                   c_cert, c_alterado, c_archivo_cert, c_llamada, c_disco, c_db>>
    /\ UNCHANGED <<qvars, fvars, jvars, tvars>>

CNext ==
    \/ CAbrirArchivo
    \/ CComprobarArchivo
    \/ CRecibirCertify
    \/ CArchivoCambiaEnEspera
    \/ COtraPeticion
    \/ CGenerarCertificadoHibrido
    \/ CCertificarArchivo
    \/ CCertify
    \/ CAlterarCertificado
    \/ CAlterarArchivo
    \/ CVerificarCertificadoHibrido
    \/ CVerificarIntegridadTotal
    \/ CVerify

SpecCert == CInit /\ [][CNext]_vars


(***************************************************************************)
(* Properties of certification and verification                            *)
(***************************************************************************)
CCertificado == c_pc \in {"certificado", "verificado"}
CVerificado == c_pc = "verificado"
CEmitido == c_emitido # SinCertificado
\* the time record a certificate carries
TimestampDe(cert) ==
    IF cert.tipo = "notario" THEN cert.sello_temporal ELSE cert.timestamp_ntp
\* the hash and the classical signature a certificate carries
HashDe(cert) ==
    IF cert.tipo = "notario" THEN cert.evidencia.hash_sha256 ELSE cert.hash_sha256
FirmaDe(cert) ==
    IF cert.tipo = "notario" THEN cert.firma_digital.valor_hex
    ELSE cert.firmas.signature_classic
\* the timestamp-plausibility check applied to the record of a certificate
Plausible(cert) == VerificarTimestampQuorum(TimestampDe(cert), FALSE, 0, c_now)
\* the classical signature of a hybrid-layout certificate checked over the
\* payload rebuilt from its fields
FirmaValida(cert) ==
    LET dual == VerificarDual(SerializeBase(CertificadoBaseDe(cert)),
                              FromHex(cert.firmas.signature_classic),
                              cert.firmas.pqc_seal, cert.firmas.pqc_auth_tag,
                              FromHex(cert.claves_publicas.ed25519_public))
    IN dual.kind = "ok" /\ dual.exito_global

\* C1: a certificate emitted by generar_certificado_hibrido or by
\* NotarioAEE.certificar_archivo carries exactly the record a successful
\* quorum over the time servers returned, never a reading of the local
\* clock, and no certificate is emitted when the quorum is not reached.
C1_TimestampDeQuorum ==
    (CCertificado /\ c_outcome.op \in {"hibrido", "notario"}) =>
        /\ CEmitido => /\ c_consulta.kind = "ok"
                       /\ TimestampDe(c_emitido) = c_consulta.record
                       /\ "fuente" \notin DOMAIN TimestampDe(c_emitido)
        /\ c_consulta.kind = "error" => ~CEmitido

\* C3: a certify operation either returns a complete certificate (file
\* hash, timestamp, non-empty classical signature) or reports an error and
\* leaves no certificate behind: none returned, none on disk, no row for
\* the file in the database.
C3_CertificacionAtomica ==
    CCertificado =>
        \/ /\ c_outcome.kind = "ok"
           /\ CEmitido
           /\ HashDe(c_emitido) = Sha256(c_archivo_cert)
           /\ "timestamp_unix" \in DOMAIN TimestampDe(c_emitido)
           /\ IsHex(FirmaDe(c_emitido)) /\ FromHex(FirmaDe(c_emitido)) # EMPTY
        \/ /\ c_outcome.kind = "error"
           /\ ~CEmitido
           /\ c_disco = DiscoAusente
           /\ \A row \in c_db.certificates : row.filename # NombreArchivo

\* C4: once one field of the signed payload (hash_sha256, timestamp_ntp,
\* archivo, metadata, claves_publicas) of an emitted certificate has been
\* changed, the classical signature no longer verifies over the rebuilt
\* payload, and a verification reports neither a valid signature nor
\* overall success.
C4_CampoAlteradoInvalidaFirma ==
    (c_cert.tipo \in {"hibrido", "api"} /\ c_alterado \in CamposFirmados) =>
        /\ ~FirmaValida(c_cert)
        /\ CVerificado => (~c_report.exitoso /\ c_report.firma # "ok")

\* C4 witness: the metadata of a hybrid certificate was changed, the file is
\* the certified one, and the verifier reported the signature as invalid
C4_Witness ==
    /\ CVerificado
    /\ c_report.op = "hibrido"
    /\ c_alterado = "metadata"
    /\ c_archivo.contenido = c_archivo_cert
    /\ c_report.hash = "ok"
    /\ c_report.firma = "fallo"
    /\ ~c_report.exitoso

\* C5: verification runs hash, then timestamp plausibility, then signature,
\* and stops at the first failure: after a hash mismatch no later stage is
\* evaluated, the signature stage is evaluated only after the timestamp
\* stage, and never for a certificate whose record is not plausible.
C5_OrdenFailFast ==
    (CVerificado /\ c_report.op \in {"hibrido", "notario"}) =>
        /\ c_report.hash = "fallo" =>
              /\ ~c_report.exitoso
              /\ c_report.sello_temporal = "no_evaluado"
              /\ c_report.firma = "no_evaluado"
        /\ c_report.sello_temporal # "no_evaluado" => c_report.hash = "ok"
        /\ (c_report.hash = "ok" /\ ~Plausible(c_cert)) => c_report.firma = "no_evaluado"

\* C6: verifying an unmodified, validly issued certificate against a file
\* whose hash differs from the certified one gives overall failure with the
\* hash stage failing and with the timestamp and signature stages evaluated
\* and reported all the same.
C6_HashDistintoOtrasEtapas ==
    (/\ CVerificado
     /\ c_alterado = ""
     /\ c_archivo.existe
     /\ c_archivo.contenido # c_archivo_cert) =>
        /\ ~c_report.exitoso
        /\ c_report.hash = "fallo"
        /\ c_report.sello_temporal # "no_evaluado"
        /\ c_report.firma # "no_evaluado"

\* C7: a verification reports overall success only if the hash of the file
\* equals the stored hash, the embedded record passes the
\* timestamp-plausibility check, and the classical signature is valid.
C7_ExitoSoloSiTresEtapas ==
    (CVerificado /\ c_report.exitoso) =>
        /\ HashDe(c_cert) = Sha256(c_archivo.contenido)
        /\ Plausible(c_cert)
        /\ c_report.firma = "ok"

\* C8: a certificate made by generar_certificado_hibrido, left as it is and
\* verified by verificar_certificado_hibrido against the unchanged file,
\* gives overall success with the hash check and the Ed25519 check valid.
C8_RoundTrip ==
    (/\ CVerificado
     /\ c_report.op = "hibrido"
     /\ c_alterado = ""
     /\ c_archivo.contenido = c_archivo_cert) =>
        /\ c_report.exitoso
        /\ c_report.hash = "ok"
        /\ c_report.firma = "ok"

\* C8 witness: a certificate with metadata over a non-empty file, sealed
\* with Kyber, came back from the verifier as valid
C8_Witness ==
    /\ CVerificado
    /\ c_report.op = "hibrido"
    /\ c_alterado = ""
    /\ c_archivo.contenido = c_archivo_cert
    /\ c_archivo.contenido # EMPTY
    /\ c_cert.metadata # <<"dict">>
    /\ c_cert.firmas.pqc_seal # NONE
    /\ c_report.exitoso


\* C15: when the time quorum fails during generar_certificado_hibrido or
\* NotarioAEE.certificar_archivo, the builder aborts and its caller receives
\* the quorum's own error, of the same kind, not another error type.
C15_ErrorDeQuorumSinCambio ==
    (/\ CCertificado
     /\ c_outcome.op \in {"hibrido", "notario"}
     /\ c_consulta.kind = "error") =>
        /\ c_outcome.kind = "error"
        /\ ~CEmitido
        /\ c_outcome.error = c_consulta.error

(***************************************************************************)
(* SpecFirma: one call of firmar_dual, the signature possibly losing or    *)
(* changing its post-quantum fields on the way, and one call of            *)
(* verificar_dual on what arrives.                                         *)
(***************************************************************************)
\* the canonical messages: non-empty Python strings
Payloads == {<<"payload", b>> : b \in 0..MaxByte}

\* the key pairs a caller can hand to firmar_dual: the ones
\* generar_par_claves_hibrido produced, and the same with private bytes
\* Ed25519 rejects, with no private bytes, or with no Kyber public key
KeyPairsGenerados(kyber_available) ==
    {GenerarParClavesHibrido(k, kyber_available, 0) : k \in KeyIds}

KeyPairs(kyber_available) ==
    UNION {{kp,
            [kp EXCEPT !.ed25519_private = EdPrivateCorrupt],
            [kp EXCEPT !.ed25519_private = EMPTY],
            [kp EXCEPT !.kyber_public = EMPTY]} : kp \in KeyPairsGenerados(kyber_available)}

\* what a holder of the DualSignature can do to its fields: the post-quantum
\* ones dropped or replaced, the classical signature emptied, missing, or
\* left as its hex text instead of bytes
SellosAlterados(firma) ==
    {[sello |-> "quitado", firma |-> [firma EXCEPT !.pqc_seal = NONE, !.pqc_auth_tag = NONE]],
     [sello |-> "sin_tag", firma |-> [firma EXCEPT !.pqc_auth_tag = NONE]],
     [sello |-> "vacio", firma |-> [firma EXCEPT !.pqc_seal = EMPTY, !.pqc_auth_tag = EMPTY]],
     [sello |-> "ajeno", firma |-> [firma EXCEPT !.pqc_seal = <<"kyber_ct", EMPTY>>,
                                                  !.pqc_auth_tag = <<"hmac", EMPTY, EMPTY>>]],
     [sello |-> "firma_vacia", firma |-> [firma EXCEPT !.signature_classic = EMPTY]],
     [sello |-> "firma_none", firma |-> [firma EXCEPT !.signature_classic = NONE]],
     [sello |-> "firma_texto", firma |-> [firma EXCEPT !.signature_classic = Hex(@)]]}

\* the public keys a caller can hand to verificar_dual: the 32 byte keys and
\* byte strings of another length
ClavesPublicas == {EdPublic(k) : k \in KeyIds} \cup {EMPTY, <<"bytes", 31>>}

FInit ==
    /\ f_kyber \in BOOLEAN
    /\ f_mensaje \in {EMPTY} \cup Payloads
    /\ f_keypair \in KeyPairs(f_kyber)
    /\ f_pc = "inicio"
    /\ f_firma = SinFirma
    /\ f_pqc_falla = FALSE
    /\ f_presentada = SinFirma
    /\ f_sello = ""
    /\ f_verif = [kind |-> "ninguna"]
    /\ f_resultado = [kind |-> "ninguno"]
    /\ f_auditoria = [kind |-> "ninguna"]
    /\ QReposo
    /\ CReposo
    /\ JReposo
    /\ TReposo

\* engine.firmar_dual(mensaje_canonical, keypair)
FFirmar ==
    /\ f_pc = "inicio"
    /\ \E pqc_falla \in BOOLEAN :
        LET r == FirmarDual(f_mensaje, f_keypair, f_kyber, pqc_falla, 1)
        IN /\ f_firma' = r
           /\ f_pqc_falla' = pqc_falla
           /\ f_presentada' = IF r.kind = "ok" THEN r.firma ELSE SinFirma
    /\ f_pc' = "firmado"
    /\ UNCHANGED <<f_kyber, f_mensaje, f_keypair, f_sello, f_verif, f_resultado,
                   f_auditoria>>
    /\ UNCHANGED <<qvars, cvars, jvars, tvars>>

\* the DualSignature is a plain dataclass: its post-quantum fields can be
\* dropped or replaced before it is verified
FAlterarSello ==
    /\ f_pc = "firmado"
    /\ f_firma.kind = "ok"
    /\ f_sello = ""
    /\ \E a \in SellosAlterados(f_firma.firma) :
        /\ f_presentada' = a.firma
        /\ f_sello' = a.sello
    /\ UNCHANGED <<f_kyber, f_mensaje, f_keypair, f_pc, f_firma, f_pqc_falla,
                   f_verif, f_resultado, f_auditoria>>
    /\ UNCHANGED <<qvars, cvars, jvars, tvars>>

\* engine.verificar_dual(mensaje_canonical, dual_signature, clave_publica)
FVerificar ==
    /\ f_pc = "firmado"
    /\ f_firma.kind = "ok"
    /\ \E mensaje \in {EMPTY} \cup Payloads, clave \in ClavesPublicas :
        /\ f_verif' = [kind |-> "llamada", mensaje |-> mensaje, clave |-> clave]
        /\ f_resultado' = VerificarDual(mensaje, f_presentada.signature_classic,
                                        f_presentada.pqc_seal, f_presentada.pqc_auth_tag,
                                        clave)
    /\ f_pc' = "verificado"
    /\ UNCHANGED <<f_kyber, f_mensaje, f_keypair, f_firma, f_pqc_falla,
                   f_presentada, f_sello, f_auditoria>>
    /\ UNCHANGED <<qvars, cvars, jvars, tvars>>

\* the Kyber private keys an auditor can hold
ClavesAuditor == {KyPrivate(k) : k \in KeyIds} \cup {EMPTY}

\* engine.desencapsular_auditoria(pqc_seal, mensaje_canonical, pqc_auth_tag,
\* clave_privada_kyber) on the DualSignature as it arrived
FAuditar ==
    /\ f_pc = "firmado"
    /\ f_firma.kind = "ok"
    /\ \E mensaje \in {EMPTY} \cup Payloads, clave \in ClavesAuditor :
        f_auditoria' = [kind |-> "llamada", mensaje |-> mensaje, clave |-> clave,
                        resultado |-> DesencapsularAuditoria(
                                          f_presentada.pqc_seal, mensaje,
                                          f_presentada.pqc_auth_tag, clave, f_kyber)]
    /\ f_pc' = "auditado"
    /\ UNCHANGED <<f_kyber, f_mensaje, f_keypair, f_firma, f_pqc_falla,
                   f_presentada, f_sello, f_verif, f_resultado>>
    /\ UNCHANGED <<qvars, cvars, jvars, tvars>>

FNext == FFirmar \/ FAlterarSello \/ FVerificar \/ FAuditar

SpecFirma == FInit /\ [][FNext]_vars

\* firmar_dual returned a DualSignature
FFirmada == f_pc # "inicio" /\ f_firma.kind = "ok"
\* verificar_dual was called
FVerificada == f_pc = "verificado"
\* the key pair came out of generar_par_claves_hibrido unchanged
FKeyPairGenerado == f_keypair \in KeyPairsGenerados(f_kyber)
\* the DualSignature carries the post-quantum seal
FConSello == f_firma.firma.pqc_seal # NONE

\* verificar_dual was given the message that was signed, the signature as
\* firmar_dual returned it, and the public half of the signing key pair
FMismaLlamada ==
    /\ FVerificada
    /\ f_sello = ""
    /\ f_verif.mensaje = f_mensaje
    /\ f_verif.clave = f_keypair.ed25519_public

\* C16: for every payload P and every key pair K that
\* generar_par_claves_hibrido produced, verificar_dual(P, firmar_dual(P, K),
\* K.ed25519_public) returns true, with the post-quantum seal and without it.
C16_FirmaPropiaVerifica ==
    (FMismaLlamada /\ FKeyPairGenerado)
        => (f_resultado.kind = "ok" /\ f_resultado.exito_global = TRUE)

\* Kyber is available and the seal was still not produced: the signature
\* verifies under the key pair that made it and the seal is reported absent
C16_Witness ==
    /\ FMismaLlamada
    /\ FKeyPairGenerado
    /\ f_kyber
    /\ ~FConSello
    /\ f_resultado.kind = "ok"
    /\ f_resultado.mensaje_kyber = "Sello PQC no presente."

\* the public key is the public half of another generated key pair
FOtraClave ==
    /\ FVerificada
    /\ f_verif.mensaje = f_mensaje
    /\ Is32Bytes(f_verif.clave)
    /\ f_verif.clave # f_keypair.ed25519_public
    /\ f_presentada.signature_classic = f_firma.firma.signature_classic

\* C17: for every payload P and two distinct classical key pairs K1 and K2,
\* verificar_dual(P, firmar_dual(P, K1), K2.ed25519_public) returns the
\* boolean false with the message that the signature is invalid, and raises
\* nothing.
C17_ClaveAjenaEsFalse ==
    FOtraClave
        => /\ f_resultado.kind = "ok"
           /\ f_resultado.exito_global = FALSE
           /\ f_resultado.ed25519_valido = FALSE
           /\ f_resultado.mensaje_ed25519 = "Firma Ed25519 invalida."

C17_Witness ==
    /\ FOtraClave
    /\ FKeyPairGenerado
    /\ f_sello = ""
    /\ FConSello
    /\ f_resultado.kind = "ok"
    /\ ~f_resultado.exito_global

\* verificar_certificado_hibrido reached its signature stage on a
\* certificate of the hybrid layout
CFirmaEvaluada ==
    /\ CVerificado
    /\ c_report.op = "hibrido"
    /\ c_report.hash = "ok"

\* C18: the overall result of public verification is the classical Ed25519
\* result and nothing else: whether the post-quantum seal and tag are
\* present, absent or of other content never changes it.
C18_SelloNoCondiciona ==
    CFirmaEvaluada => (c_report.exitoso = FirmaValida(c_cert))

\* firmar_dual was called
FLlamada == f_pc # "inicio"
\* the parameters pass the checks of firmar_dual and the classical signing
\* step fails: Ed25519PrivateKey.from_private_bytes rejects the private bytes
FClasicaFalla ==
    /\ f_mensaje # EMPTY
    /\ f_keypair.ed25519_private # EMPTY
    /\ ~IsEdPrivate(f_keypair.ed25519_private)

\* C19: every DualSignature firmar_dual returns has a non-empty classical
\* signature, and pqc_seal and pqc_auth_tag are both present or both
\* absent; when the classical signing step fails firmar_dual raises the
\* signing error and returns no DualSignature.
C19_FirmaClasicaSiempre ==
    FLlamada =>
        /\ f_firma.kind = "ok" =>
              /\ f_firma.firma.signature_classic # EMPTY
              /\ f_firma.firma.signature_classic # NONE
              /\ (f_firma.firma.pqc_seal = NONE) <=> (f_firma.firma.pqc_auth_tag = NONE)
        /\ FClasicaFalla =>
              /\ f_firma.kind = "error"
              /\ f_firma.error = "RuntimeError"
              /\ f_presentada = SinFirma

\* a DualSignature that carries the seal and the tag
C19_Witness ==
    /\ FFirmada
    /\ f_firma.firma.pqc_seal # NONE
    /\ f_firma.firma.pqc_auth_tag # NONE
    /\ f_firma.firma.signature_classic = Ed25519Sign(f_keypair.ed25519_private, f_mensaje)

\* the post-quantum sealing was attempted and _encapsular_hibrido raised
FSelloFallo ==
    /\ FLlamada
    /\ f_pqc_falla
    /\ f_kyber
    /\ f_keypair.kyber_public # EMPTY
\* the classical part of the call is in order
FClasicaBien == f_mensaje # EMPTY /\ IsEdPrivate(f_keypair.ed25519_private)

\* C20: when a step of the post-quantum sealing fails during firmar_dual the
\* failure is caught and signing does not abort: the DualSignature returned
\* has the valid classical signature and neither pqc_seal nor pqc_auth_tag,
\* and verificar_dual accepts it under the public key of the key pair.
C20_FalloDelSelloNoAborta ==
    (FSelloFallo /\ FClasicaBien) =>
        /\ f_firma.kind = "ok"
        /\ f_firma.firma.pqc_seal = NONE
        /\ f_firma.firma.pqc_auth_tag = NONE
        /\ LET r == VerificarDual(f_mensaje, f_firma.firma.signature_classic,
                                  f_firma.firma.pqc_seal, f_firma.firma.pqc_auth_tag,
                                  f_keypair.ed25519_public)
           IN r.kind = "ok" /\ r.exito_global
        /\ FMismaLlamada => (f_resultado.kind = "ok" /\ f_resultado.exito_global)

\* the sealing failed, the signature was returned and verificar_dual
\* accepted it
C20_Witness ==
    /\ FSelloFallo
    /\ FClasicaBien
    /\ FMismaLlamada
    /\ f_firma.kind = "ok"
    /\ f_resultado.kind = "ok"
    /\ f_resultado.exito_global
    /\ f_resultado.mensaje_kyber = "Sello PQC no presente."

\* a parameter of this call of verificar_dual is malformed
FMalformada ==
    \/ f_verif.mensaje = EMPTY
    \/ f_presentada.signature_classic \in {NONE, EMPTY}
    \/ f_verif.clave \notin {EdPublic(k) : k \in KeyIds}

\* C21: verificar_dual raises the validation error, with no cryptographic
\* check made, exactly when the payload is empty, the classical signature is
\* empty or missing, or the public key is not 32 bytes long; the boolean
\* false of an invalid signature and the error of a cryptographic fault are
\* other outcomes.
C21_ValidacionAntesDeCripto ==
    FVerificada =>
        /\ FMalformada <=> (f_resultado.kind = "error" /\ f_resultado.error = "ValueError")
        /\ FMalformada => "ed25519_valido" \notin DOMAIN f_resultado
        /\ (f_resultado.kind = "ok" /\ ~f_resultado.exito_global) => ~FMalformada
        /\ (f_resultado.kind = "error" /\ f_resultado.error = "RuntimeError") => ~FMalformada

\* the signature is in order and the key is one byte short
C21_Witness ==
    /\ FVerificada
    /\ f_verif.mensaje = f_mensaje
    /\ f_sello = ""
    /\ f_verif.clave = <<"bytes", 31>>
    /\ f_resultado = [kind |-> "error", error |-> "ValueError"]

\* a verifier of certificates ran up to its signature stage
CLlegoAFirma ==
    /\ CVerificado
    /\ c_report.op \in {"hibrido", "notario"}
    /\ c_report.hash = "ok"
    /\ c_report.sello_temporal # "fallo"

\* C22: certificate verification tells data from errors: a well-formed
\* certificate whose signature does not match gives a normal report of
\* failure and no exception, and a certificate of malformed structure (a
\* signature that is no hex, a key of the wrong size, no signed payload)
\* makes the verifier raise instead of returning a failure report.
C22_DatosNoSonErrores ==
    CLlegoAFirma =>
        /\ c_alterado \in (CamposFirmados \cup {"firmas", "firma_digital"}) =>
              (c_report.error = "" /\ ~c_report.exitoso)
        /\ c_alterado = "estructura" => c_report.error # ""

\* desencapsular_auditoria was called on a signature that firmar_dual
\* returned with its seal
FAuditada == f_pc = "auditado" /\ FConSello
\* the auditor gave the signed payload, the seal and tag as returned, and the
\* Kyber private key of the signing key pair
FAuditoriaPropia ==
    /\ f_auditoria.mensaje = f_mensaje
    /\ f_presentada.pqc_seal = f_firma.firma.pqc_seal
    /\ f_presentada.pqc_auth_tag = f_firma.firma.pqc_auth_tag
    /\ f_auditoria.clave = f_keypair.kyber_private
\* another payload, another tag or another private key, the ciphertext being
\* the one firmar_dual produced
FAuditoriaAjena ==
    /\ f_presentada.pqc_seal = f_firma.firma.pqc_seal
    /\ \/ f_auditoria.mensaje # f_mensaje
       \/ f_presentada.pqc_auth_tag # f_firma.firma.pqc_auth_tag
       \/ f_auditoria.clave # f_keypair.kyber_private

\* C23: for every seal (ciphertext, tag) firmar_dual produced over payload P
\* with key pair K, desencapsular_auditoria(ciphertext, P, tag,
\* K.kyber_private) is true; with another payload, another tag or another
\* private key it is false and carries a message.  It returns in every case.
C23_AuditoriaDelSello ==
    FAuditada =>
        /\ FAuditoriaPropia => f_auditoria.resultado.valido
        /\ FAuditoriaAjena =>
              (~f_auditoria.resultado.valido /\ f_auditoria.resultado.mensaje # "")

\* the auditor's own key opens the seal
C23_Witness ==
    /\ FAuditada
    /\ FAuditoriaPropia
    /\ f_auditoria.resultado.valido
    /\ f_auditoria.resultado.mensaje = "Sello post-cuantico VALIDO."

(***************************************************************************)
(* PART 3: CanonicalJSONSerializer (src/aee/core.py).                      *)
(*                                                                         *)
(* A Python value is <<"dict", entries>> with entries the sequence of      *)
(* <<key, value>> in insertion order, or a leaf: <<"int", n>>,             *)
(* <<"str", s>>, <<"float", "nan" | "inf" | "-inf">>, or <<"bytes", b>>,   *)
(* which json has no encoding for.  The canonical text is a string.        *)
(***************************************************************************)
\* the integer leaves are 0..MaxJsonInt
MaxJsonInt == 1

JsonLeaves ==
    {<<"int", n>> : n \in 0..MaxJsonInt}
        \cup {<<"str", "0">>, <<"float", "nan">>, <<"float", "inf">>,
              <<"float", "-inf">>, <<"bytes", "x">>}
\* the leaves of the nested dictionary
JsonInnerLeaves == {<<"int", 0>>, <<"str", "0">>, <<"float", "nan">>}

\* the keys in the order of their code points
JsonAlphabet == <<"a", "b", "c", "d">>
KeyRank(k) == CHOOSE i \in 1..Len(JsonAlphabet) : JsonAlphabet[i] = k

\* the dictionaries with keys out of a set of two, inserted in any order
DictsOver(k1, vals1, k2, vals2) ==
    {<<"dict", <<>>>>}
        \cup {<<"dict", <<<<k1, v>>>>>> : v \in vals1}
        \cup {<<"dict", <<<<k2, v>>>>>> : v \in vals2}
        \cup {<<"dict", <<<<k1, v>>, <<k2, w>>>>>> : v \in vals1, w \in vals2}
        \cup {<<"dict", <<<<k2, w>>, <<k1, v>>>>>> : v \in vals1, w \in vals2}

\* the records: "a" holds a leaf and "b" a nested dictionary
JsonRecords ==
    DictsOver("a", JsonLeaves, "b", DictsOver("c", JsonInnerLeaves, "d", JsonInnerLeaves))

\* json.dumps without sort_keys: the items in insertion order
ItemsEnOrdenDeInsercion(entries) == entries

\* json.dumps(sort_keys=True): sorted(dct.items()), the items by key
SortedItems(entries) ==
    LET n == Len(entries)
        menores(i) == {j \in 1..n : KeyRank(entries[j][1]) < KeyRank(entries[i][1])}
    IN [m \in 1..n |-> entries[CHOOSE i \in 1..n : Cardinality(menores(i)) = m - 1]]

\* an encoder that writes a string without its quotes
LeafTextSinComillas(v) ==
    CASE v[1] = "int" -> ToString(v[2])
      [] v[1] = "str" -> v[2]
      [] v[1] = "float" /\ v[2] = "nan" -> "NaN"
      [] v[1] = "float" /\ v[2] = "inf" -> "Infinity"
      [] v[1] = "float" /\ v[2] = "-inf" -> "-Infinity"

\* json.dumps of a leaf; allow_nan is left at its default True, so the
\* floats without a JSON form are written as NaN, Infinity and -Infinity
LeafText(v) ==
    CASE v[1] = "int" -> ToString(v[2])
      [] v[1] = "str" -> "\"" \o v[2] \o "\""
      [] v[1] = "float" /\ v[2] = "nan" -> "NaN"
      [] v[1] = "float" /\ v[2] = "inf" -> "Infinity"
      [] v[1] = "float" /\ v[2] = "-inf" -> "-Infinity"

RECURSIVE JsonDumps(_)
RECURSIVE JoinItems(_, _)
\* "key":value of the items from the i-th on, separated by ","
JoinItems(items, i) ==
    LET val == JsonDumps(items[i][2])
        resto == JoinItems(items, i + 1)
        miembro == "\"" \o items[i][1] \o "\":" \o val.texto
    IN IF val.kind = "error" THEN val
       ELSE IF i = Len(items) THEN [kind |-> "ok", texto |-> miembro]
       ELSE IF resto.kind = "error" THEN resto
       ELSE [kind |-> "ok", texto |-> miembro \o "," \o resto.texto]

\* json.dumps(data, sort_keys=True, separators=(',', ':'), ensure_ascii=False)
JsonDumps(v) ==
    IF v[1] = "bytes"
    THEN [kind |-> "error", error |-> "TypeError"]
    ELSE IF v[1] # "dict"
    THEN [kind |-> "ok", texto |-> LeafText(v)]
    ELSE IF v[2] = <<>>
    THEN [kind |-> "ok", texto |-> "{}"]
    ELSE LET miembros == JoinItems(SortedItems(v[2]), 1)
         IN IF miembros.kind = "error" THEN miembros
            ELSE [kind |-> "ok", texto |-> "{" \o miembros.texto \o "}"]

\* CanonicalJSONSerializer.serialize: every exception leaves as ValueError
Serialize(data) ==
    LET canonical == JsonDumps(data)
    IN IF canonical.kind = "error"
       THEN [kind |-> "error", error |-> "ValueError"]
       ELSE canonical

\* CanonicalJSONSerializer.hash_canonical
HashCanonical(data) ==
    LET canonical_json == Serialize(data)
    IN IF canonical_json.kind = "error"
       THEN canonical_json
       ELSE [kind |-> "ok", hash |-> Hex(Sha256(canonical_json.texto))]

\* CanonicalJSONSerializer.verify_canonical
VerifyCanonical(data, expected_hash) ==
    LET computed_hash == HashCanonical(data)
    IN IF computed_hash.kind = "error"
       THEN computed_hash
       ELSE [kind |-> "ok", igual |-> computed_hash.hash = expected_hash]

RECURSIVE Reordenados(_)
\* the values that differ from v in the insertion order of keys only, at any
\* depth
Reordenados(v) ==
    IF v[1] # "dict"
    THEN {v}
    ELSE LET e == v[2]
             n == Len(e)
             hijos == UNION {Reordenados(e[i][2]) : i \in 1..n}
             elecciones == {w \in [1..n -> hijos] : \A i \in 1..n : w[i] \in Reordenados(e[i][2])}
         IN {<<"dict", [i \in 1..n |-> <<e[p[i]][1], w[p[i]]>>]>> :
                p \in Permutations(1..n), w \in elecciones}

JInit ==
    /\ j_r1 \in JsonRecords
    /\ j_r2 = <<"dict", <<>>>>
    /\ j_rel = ""
    /\ j_pc = "inicio"
    /\ j_s1 = SinTexto
    /\ j_h1 = SinTexto
    /\ j_s2 = SinTexto
    /\ j_h2 = SinTexto
    /\ j_verify = SinTexto
    /\ QReposo
    /\ CReposo
    /\ FReposo
    /\ TReposo

\* serialize(r1) and hash_canonical(r1)
JSerialize ==
    /\ j_pc = "inicio"
    /\ j_s1' = Serialize(j_r1)
    /\ j_h1' = HashCanonical(j_r1)
    /\ j_pc' = "serializado"
    /\ UNCHANGED <<j_r1, j_r2, j_rel, j_s2, j_h2, j_verify>>
    /\ UNCHANGED <<qvars, cvars, fvars, tvars>>

\* the second record, serialized, hashed and verified against the hash of
\* the first
JSegundo(r2, rel) ==
    /\ j_pc = "serializado"
    /\ j_r2' = r2
    /\ j_rel' = rel
    /\ j_s2' = Serialize(r2)
    /\ j_h2' = HashCanonical(r2)
    /\ j_verify' = IF j_h1.kind = "ok" THEN VerifyCanonical(r2, j_h1.hash) ELSE SinTexto
    /\ j_pc' = "comparado"
    /\ UNCHANGED <<j_r1, j_s1, j_h1>>
    /\ UNCHANGED <<qvars, cvars, fvars, tvars>>

\* the same record built with its keys inserted in another order
JReordenar == \E r2 \in Reordenados(j_r1) : JSegundo(r2, "permutacion")

\* a record that is not the first one in another order
JOtroRegistro == \E r2 \in JsonRecords \ Reordenados(j_r1) : JSegundo(r2, "otro")

JNext == JSerialize \/ JReordenar \/ JOtroRegistro

SpecJson == JInit /\ [][JNext]_vars

JSerializado == j_pc \in {"serializado", "comparado"}
JComparado == j_pc = "comparado"

\* C24: for every record R, serialize gives the identical text for every
\* order in which the keys of R were inserted, at every nesting depth, and
\* hash_canonical therefore the same hash.
C24_OrdenDeClavesIndiferente ==
    (JComparado /\ j_rel = "permutacion") => (j_s2 = j_s1 /\ j_h2 = j_h1)

\* both the record and its nested dictionary were built in another order
C24_Witness ==
    /\ JComparado
    /\ j_rel = "permutacion"
    /\ Len(j_r1[2]) = 2
    /\ j_r2[2][1][1] # j_r1[2][1][1]
    /\ \E i \in 1..2 :
          /\ j_r1[2][i][1] = "b"
          /\ Len(j_r1[2][i][2][2]) = 2
          /\ j_r2[2][3 - i][2][2][1][1] # j_r1[2][i][2][2][1][1]
    /\ j_s1.kind = "ok"
    /\ j_s2 = j_s1

\* C25: the canonical encoding is injective: two records that differ in a
\* leaf value have different texts and different hashes, and
\* verify_canonical of the one against the hash of the other is false.
C25_CodificacionInyectiva ==
    (JComparado /\ j_rel = "otro" /\ j_s1.kind = "ok" /\ j_s2.kind = "ok") =>
        /\ j_s1.texto # j_s2.texto
        /\ j_h1.hash # j_h2.hash
        /\ j_verify.kind = "ok"
        /\ ~j_verify.igual

\* the integer 0 in one record and the string "0" in the other
C25_Witness ==
    /\ JComparado
    /\ j_rel = "otro"
    /\ j_r1 = <<"dict", <<<<"a", <<"int", 0>>>>>>>>
    /\ j_r2 = <<"dict", <<<<"a", <<"str", "0">>>>>>>>
    /\ j_s1.texto = "{\"a\":0}"
    /\ j_s2.texto = "{\"a\":\"0\"}"
    /\ j_verify.kind = "ok"
    /\ ~j_verify.igual

RECURSIVE ContieneNoFinito(_)
\* the value holds NaN, Infinity or -Infinity at some depth
ContieneNoFinito(v) ==
    IF v[1] = "dict"
    THEN \E i \in 1..Len(v[2]) : ContieneNoFinito(v[2][i][2])
    ELSE v[1] = "float"

\* C26: the canonical encoding of a record that holds NaN, Infinity or
\* -Infinity at any depth raises the encoding error and gives no text.
C26_NoFinitoEsError ==
    (JSerializado /\ ContieneNoFinito(j_r1)) => j_s1.kind = "error"

(***************************************************************************)
(* PART 4: ForensicErrorHandler (src/aee/core.py).  The wrapped operation  *)
(* writes files, calls backup_file and register_temp_file, and then either *)
(* returns or raises; __exit__ runs in the same step as that.              *)
(***************************************************************************)
\* steps the wrapped operation makes before it returns or raises
MaxOps == 3

Paths == {"f", "g"}
Ausente == [existe |-> FALSE, contenido |-> 0]
Archivo(c) == [existe |-> TRUE, contenido |-> c]
Archivos == {Ausente} \cup {Archivo(c) : c \in 0..MaxByte}
NoRespaldado == [llamado |-> FALSE, archivo |-> Ausente]

TInit ==
    /\ t_fs \in [Paths -> Archivos]
    /\ t_inicio = t_fs
    /\ t_backup_data = {}
    /\ t_backups = [p \in Paths |-> Ausente]
    /\ t_temp_files = {}
    /\ t_respaldado = [p \in Paths |-> NoRespaldado]
    /\ t_ops = 0
    /\ t_pc = "dentro"
    /\ t_outcome = ""
    /\ QReposo
    /\ CReposo
    /\ FReposo
    /\ JReposo

\* handler.backup_file(file_path): a file that does not exist is skipped
TBackupFile ==
    /\ t_pc = "dentro"
    /\ t_ops < MaxOps
    /\ \E p \in Paths :
        /\ t_respaldado' = [t_respaldado EXCEPT ![p] = [llamado |-> TRUE, archivo |-> t_fs[p]]]
        /\ IF t_fs[p].existe
           THEN /\ t_backups' = [t_backups EXCEPT ![p] = t_fs[p]]
                /\ t_backup_data' = t_backup_data \cup {p}
           ELSE UNCHANGED <<t_backups, t_backup_data>>
    /\ t_ops' = t_ops + 1
    /\ UNCHANGED <<t_fs, t_inicio, t_temp_files, t_pc, t_outcome>>
    /\ UNCHANGED <<qvars, cvars, fvars, jvars>>

\* handler.register_temp_file(file_path)
TRegisterTempFile ==
    /\ t_pc = "dentro"
    /\ t_ops < MaxOps
    /\ \E p \in Paths : t_temp_files' = t_temp_files \cup {p}
    /\ t_ops' = t_ops + 1
    /\ UNCHANGED <<t_fs, t_inicio, t_backup_data, t_backups, t_respaldado, t_pc, t_outcome>>
    /\ UNCHANGED <<qvars, cvars, fvars, jvars>>

\* the wrapped operation writes a file
TEscribir ==
    /\ t_pc = "dentro"
    /\ t_ops < MaxOps
    /\ \E p \in Paths, c \in 0..MaxByte : t_fs' = [t_fs EXCEPT ![p] = Archivo(c)]
    /\ t_ops' = t_ops + 1
    /\ UNCHANGED <<t_inicio, t_backup_data, t_backups, t_temp_files, t_respaldado,
                   t_pc, t_outcome>>
    /\ UNCHANGED <<qvars, cvars, fvars, jvars>>

\* _cleanup_temp_files: every registered temporary file is unlinked
CleanupTempFiles(fs, temp_files) ==
    [p \in Paths |-> IF p \in temp_files THEN Ausente ELSE fs[p]]

\* _rollback: every original that has a backup is written back from it,
\* then the temporary files are cleaned up
Rollback(fs, backup_data, backups, temp_files) ==
    CleanupTempFiles([p \in Paths |-> IF p \in backup_data /\ backups[p].existe
                                      THEN backups[p] ELSE fs[p]],
                     temp_files)

\* the wrapped operation raises: __exit__ rolls back and raises
\* ForensicTransactionError
TExitConError ==
    /\ t_pc = "dentro"
    /\ t_fs' = Rollback(t_fs, t_backup_data, t_backups, t_temp_files)
    /\ t_backups' = [p \in Paths |-> IF p \in t_backup_data THEN Ausente ELSE t_backups[p]]
    /\ t_outcome' = "ForensicTransactionError"
    /\ t_pc' = "salio"
    /\ UNCHANGED <<t_inicio, t_backup_data, t_temp_files, t_respaldado, t_ops>>
    /\ UNCHANGED <<qvars, cvars, fvars, jvars>>

\* the wrapped operation returns: __exit__ cleans the temporary files up
TExitSinError ==
    /\ t_pc = "dentro"
    /\ t_fs' = CleanupTempFiles(t_fs, t_temp_files)
    /\ t_outcome' = "ok"
    /\ t_pc' = "salio"
    /\ UNCHANGED <<t_inicio, t_backup_data, t_backups, t_temp_files, t_respaldado, t_ops>>
    /\ UNCHANGED <<qvars, cvars, fvars, jvars>>

TNext ==
    \/ TBackupFile
    \/ TRegisterTempFile
    \/ TEscribir
    \/ TExitConError
    \/ TExitSinError

SpecTx == TInit /\ [][TNext]_vars

TSalio == t_pc = "salio"
TFallo == TSalio /\ t_outcome = "ForensicTransactionError"

\* C27: a ForensicErrorHandler transaction is all or nothing.  When the
\* wrapped operation raises, after __exit__ every file given to backup_file
\* is as it was at that call, every registered temporary file is gone, no
\* other file differs from what it was at __enter__, and the caller gets
\* ForensicTransactionError; when it returns, the temporary files are gone
\* and nothing is raised.
C27_TodoONada ==
    TSalio =>
        /\ t_outcome \in {"ok", "ForensicTransactionError"}
        /\ \A p \in t_temp_files : ~t_fs[p].existe
        /\ t_outcome = "ForensicTransactionError" =>
              \A p \in Paths \ t_temp_files :
                  IF t_respaldado[p].llamado
                  THEN t_fs[p] = t_respaldado[p].archivo
                  ELSE t_fs[p] = t_inicio[p]

\* verificar_integridad_total accepted the certificate
CNotarioAceptado ==
    /\ CVerificado
    /\ c_report.op = "notario"
    /\ c_report.exitoso

\* C28: verificar_integridad_total returns es_valido true only if the hash
\* it compared with the file and the time seal it checked are the ones the
\* verified signature covers, the hash and the timestamp of
\* firma_digital.payload_firmado; a certificate whose evidencia hash or time
\* seal was replaced after signing is never accepted.
C28_AceptadoSoloLoFirmado ==
    CNotarioAceptado =>
        /\ c_cert.evidencia.hash_sha256 = c_cert.firma_digital.payload_firmado.hash_sha256
        /\ c_cert.sello_temporal.timestamp_iso = c_cert.firma_digital.payload_firmado.timestamp_iso
        /\ Iso(c_cert.sello_temporal.timestamp_unix) = c_cert.firma_digital.payload_firmado.timestamp_iso
        /\ c_alterado \notin {"evidencia", "sello_temporal"}

\* the quorum with the default parameters returned a record
CQuorumLogrado == CCertificado /\ c_consulta.kind = "ok"

\* C29: issuer and verifier agree on the plausibility of a timestamp: every
\* record obtener_timestamp_consenso returns under the default parameters
\* (min_successful_servers 3, max_deviation_ms 500) passes
\* verificar_timestamp_quorum called without a maximum age.
C29_EmisorYVerificadorCoinciden ==
    CQuorumLogrado => VerificarTimestampQuorum(c_consulta.record, FALSE, 0, c_now)

\* verificar_certificado_hibrido ran on a certificate whose seal and tag,
\* where present, are hex text
CHibridoVerificado ==
    /\ CVerificado
    /\ c_report.op = "hibrido"
    /\ IsHex(c_cert.firmas.pqc_seal) \/ c_cert.firmas.pqc_seal = NONE
    /\ IsHex(c_cert.firmas.pqc_auth_tag) \/ c_cert.firmas.pqc_auth_tag = NONE

\* C30: the result of verificar_certificado_hibrido depends on the file and
\* on hash_sha256, timestamp_ntp, archivo, metadata, claves_publicas and
\* firmas.signature_classic only: a certificate that differs from the
\* verified one in version_protocolo, fecha_certificacion, firmas.timestamp
\* or in well-formed values of the seal and tag gets the same overall result.
C30_SoloCamposFirmados ==
    CHibridoVerificado =>
        \A otro \in NoFirmadosAlterados(c_cert) \cup SellosBienFormados(c_cert) :
            LET r == VerificarCertificadoHibrido(c_archivo, otro)
            IN r.exitoso = c_report.exitoso /\ r.mensaje = c_report.mensaje

\* a certificate with another version_protocolo, fecha_certificacion or
\* firmas.timestamp than the issued one was verified and accepted
C30_Witness ==
    /\ CHibridoVerificado
    /\ c_alterado = "no_firmado"
    /\ c_cert # c_emitido
    /\ c_report.exitoso
    /\ VerificarCertificadoHibrido(c_archivo, c_emitido).exitoso

====
